---------------------------- MODULE Spec2Model ----------------------------
(***************************************************************************)
(* A model of data/src/isupport.rs: the ISUPPORT (numeric 005) token       *)
(* parser, the capability table it feeds, the accessors that read the      *)
(* table, the fuzzing of message references and the case mappings.         *)
(*                                                                         *)
(* A Rust char is a one-character string; a Rust &str / String / Vec<char> *)
(* is a sequence of such characters, so that splitting, skipping and       *)
(* zipping are computed on the text.  Option<T> is <<>> (None) or <<x>>    *)
(* (Some(x)); Result<T, &str> is a record with an ok flag.                 *)
(***************************************************************************)
EXTENDS Integers, Sequences, FiniteSets, TLC

VARIABLES
    isupport,   \* HashMap<Kind, Parameter>: a function whose domain is the set of stored kinds
    received,   \* the tokens handed to the parser so far, in order, each with the
                \* parser's answer: [token |-> t, result |-> Operation::from_str(t)]
    references, \* the two message references given to fuzz_message_reference_range and
                \* the pair it returned; <<>> when it is not called
    folded,     \* a case mapping and a string with its successive normalizations;
                \* <<>> when CaseMap::normalize is not called
    who         \* a WHOX request: the poll parameters it was sent with, the token
                \* text a reply carries, the WhoToken parsed from that text and
                \* its rendering; <<>> when no WHOX request is made

vars == <<isupport, received, references, folded, who>>

---------------------------------------------------------------------------
(* Option and Result *)

None == <<>>

Some(x) == <<x>>

Ok(v) == [ok |-> TRUE, val |-> v]

Err(e) == [ok |-> FALSE, err |-> e]

---------------------------------------------------------------------------
(* Characters and strings *)

UpperSeq ==
    << "A", "B", "C", "D", "E", "F", "G", "H", "I", "J", "K", "L", "M",
       "N", "O", "P", "Q", "R", "S", "T", "U", "V", "W", "X", "Y", "Z" >>

LowerSeq ==
    << "a", "b", "c", "d", "e", "f", "g", "h", "i", "j", "k", "l", "m",
       "n", "o", "p", "q", "r", "s", "t", "u", "v", "w", "x", "y", "z" >>

DigitSeq == << "0", "1", "2", "3", "4", "5", "6", "7", "8", "9" >>

Range(s) == { s[i] : i \in 1..Len(s) }

IndexOf(s, c) == CHOOSE i \in 1..Len(s) : s[i] = c

is_ascii_alphabetic(c) == c \in Range(UpperSeq) \cup Range(LowerSeq)

is_ascii_digit(c) == c \in Range(DigitSeq)

\* char::to_ascii_lowercase: the ASCII capitals to their small letters, nothing else
to_ascii_lowercase_char(c) ==
    IF c \in Range(UpperSeq) THEN LowerSeq[IndexOf(UpperSeq, c)] ELSE c

\* char::to_lowercase: as on ASCII, and the capitals beyond ASCII too
to_lowercase_char(c) ==
    IF c = "É" THEN "é" ELSE to_ascii_lowercase_char(c)

\* char::to_uppercase: as on ASCII, and the small letters beyond ASCII too
to_uppercase_char(c) ==
    IF c \in Range(LowerSeq) THEN UpperSeq[IndexOf(LowerSeq, c)]
    ELSE IF c = "é" THEN "É" ELSE c

to_ascii_lowercase(s) == [i \in 1..Len(s) |-> to_ascii_lowercase_char(s[i])]

to_lowercase(s) == [i \in 1..Len(s) |-> to_lowercase_char(s[i])]

to_uppercase(s) == [i \in 1..Len(s) |-> to_uppercase_char(s[i])]

\* chars().all(|c| c.is_ascii_alphabetic()): true of the empty string
all_ascii_alphabetic(s) == \A i \in 1..Len(s) : is_ascii_alphabetic(s[i])

\* chars().all(|c| c.is_ascii_digit())
all_ascii_digit(s) == \A i \in 1..Len(s) : is_ascii_digit(s[i])

\* The text of a character sequence, to compare with a literal of the source
RECURSIVE Join(_)
Join(s) == IF s = <<>> THEN "" ELSE Head(s) \o Join(Tail(s))

\* The position of the first c in s, 0 when there is none
RECURSIVE find_from(_, _, _)
find_from(s, c, i) ==
    IF i > Len(s) THEN 0
    ELSE IF s[i] = c THEN i
    ELSE find_from(s, c, i + 1)

find(s, c) == find_from(s, c, 1)

\* str::split_once that cuts at the last c
split_once_at_last(s, c) ==
    IF c \notin Range(s) THEN None
    ELSE LET i == CHOOSE k \in 1..Len(s) :
                      s[k] = c /\ \A j \in (k + 1)..Len(s) : s[j] # c
         IN  Some(<< SubSeq(s, 1, i - 1), SubSeq(s, i + 1, Len(s)) >>)

\* str::split_once: Some(<<before, after>>) around the first c, None without one
split_once(s, c) ==
    LET i == find(s, c)
    IN  IF i = 0 THEN None
        ELSE Some(<< SubSeq(s, 1, i - 1), SubSeq(s, i + 1, Len(s)) >>)

\* str::split: the pieces between the c's; the empty string gives one empty piece
RECURSIVE split(_, _)
split(s, c) ==
    LET i == find(s, c)
    IN  IF i = 0 THEN << s >>
        ELSE << SubSeq(s, 1, i - 1) >> \o split(SubSeq(s, i + 1, Len(s)), c)

\* chars().skip(1): Tail, and nothing of the empty string
skip1(s) == IF s = <<>> THEN <<>> ELSE Tail(s)

U16_MAX == 65535

\* The value of a digit string, stopping to grow once past u16::MAX (checked arithmetic)
RECURSIVE decimal(_, _)
decimal(s, acc) ==
    IF s = <<>> \/ acc > U16_MAX THEN acc
    ELSE decimal(Tail(s), acc * 10 + (IndexOf(DigitSeq, Head(s)) - 1))

\* str::parse::<u16>: an optional '+', then one or more digits, value at most u16::MAX
parse_u16(s) ==
    LET digits == IF s # <<>> /\ Head(s) = "+" THEN Tail(s) ELSE s
    IN  IF digits = <<>> \/ ~all_ascii_digit(digits) THEN None
        ELSE IF decimal(digits, 0) > U16_MAX THEN None
        ELSE Some(decimal(digits, 0))

---------------------------------------------------------------------------
(* Primitive parsers *)

parse_optional_letters(value) ==
    IF value = <<>> THEN Ok(None)
    ELSE IF all_ascii_alphabetic(value) THEN Ok(Some(value))
    ELSE Err("value required to be letter(s) if specified")

parse_optional_positive_integer(value) ==
    IF value = <<>> THEN Ok(None)
    ELSE IF parse_u16(value) # None THEN Ok(Some(parse_u16(value)[1]))
    ELSE Err("optional value must be a positive integer if specified")

\* parse_required_letter that never falls back to the default letter
parse_required_letter_no_default(value, default_value) ==
    IF value # <<>> /\ is_ascii_alphabetic(Head(value)) THEN Ok(Head(value))
    ELSE Err("value required to be a letter")

\* parse_required_letter that answers the default letter whenever there is one
parse_required_letter_always_default(value, default_value) ==
    IF default_value # None THEN Ok(default_value[1])
    ELSE IF value # <<>> /\ is_ascii_alphabetic(Head(value)) THEN Ok(Head(value))
    ELSE Err("value required to be a letter")

parse_required_letter(value, default_value) ==
    IF value # <<>>
    THEN IF is_ascii_alphabetic(Head(value)) THEN Ok(Head(value))
         ELSE Err("value required to be a letter")
    ELSE IF default_value # None THEN Ok(default_value[1])
    ELSE Err("value required to be a letter")

parse_required_letters(value) ==
    IF value # <<>>
    THEN IF all_ascii_alphabetic(value) THEN Ok(value)
         ELSE Err("value required to be letter(s)")
    ELSE Err("value required")

\* parse_required_positive_integer that answers 0 for what is no number
parse_required_positive_integer_or_zero(value) ==
    IF parse_u16(value) # None THEN Ok(parse_u16(value)[1]) ELSE Ok(0)

parse_required_positive_integer(value) ==
    IF parse_u16(value) # None THEN Ok(parse_u16(value)[1])
    ELSE Err("value required to be a positive integer")

DEFAULT_BAN_EXCEPTION_CHANNEL_LETTER == "e"

DEFAULT_CALLER_ID_LETTER == "g"

DEFAULT_DEAF_LETTER == "D"

DEFAULT_INVITE_EXCEPTION_LETTER == "I"

---------------------------------------------------------------------------
(* Operation and Parameter *)

Parameter(tag, val) == [tag |-> tag, val |-> val]

\* A variant without a payload
Unit(tag) == [tag |-> tag, val |-> <<>>]

Add(parameter) == [op |-> "Add", param |-> parameter]

Remove(name) == [op |-> "Remove", name |-> name]

\* Ok(Operation::Add(Parameter::TAG(r?))) for a primitive parser's result r
add_parsed(tag, r) == IF r.ok THEN Ok(Add(Parameter(tag, r.val))) ELSE r

\* Ok(Operation::Add(Parameter::TAG(list))) when the list is not empty, the error otherwise
add_non_empty(tag, list, error) ==
    IF list # <<>> THEN Ok(Add(Parameter(tag, list))) ELSE Err(error)

\* CASEMAPPING: match value.to_lowercase()
casemapping(value) ==
    LET v == Join(to_lowercase(value))
    IN  CASE v = "ascii" -> Ok(Add(Parameter("CASEMAPPING", "ASCII")))
          [] v = "rfc1459" -> Ok(Add(Parameter("CASEMAPPING", "RFC1459")))
          [] v = "rfc1459-strict" -> Ok(Add(Parameter("CASEMAPPING", "RFC1459_STRICT")))
          [] v = "rfc7613" -> Ok(Add(Parameter("CASEMAPPING", "RFC7613")))
          [] OTHER -> Err("unknown casemapping")

\* One ChannelLimit per character of prefix
prefix_limits(prefix, limit) ==
    [i \in 1..Len(prefix) |-> [prefix |-> prefix[i], limit |-> limit]]

\* CHANLIMIT item whose limit does not parse taken as an item without limit
channel_limit_item_unparsed_as_unlimited(channel_limit) ==
    LET sp == split_once(channel_limit, ":")
    IN  IF sp = None THEN <<>>
        ELSE IF parse_u16(sp[1][2]) # None
            THEN prefix_limits(sp[1][1], Some(parse_u16(sp[1][2])[1]))
        ELSE prefix_limits(sp[1][1], None)

\* CHANLIMIT: what one comma item pushes
channel_limit_item(channel_limit) ==
    LET sp == split_once(channel_limit, ":")
    IN  IF sp = None THEN <<>>
        ELSE IF sp[1][2] = <<>> THEN prefix_limits(sp[1][1], None)
        ELSE IF parse_u16(sp[1][2]) # None
            THEN prefix_limits(sp[1][1], Some(parse_u16(sp[1][2])[1]))
        ELSE <<>>

RECURSIVE channel_limits(_)
channel_limits(items) ==
    IF items = <<>> THEN <<>>
    ELSE channel_limit_item(Head(items)) \o channel_limits(Tail(items))

\* CHANMODES: ('A'..='Z').zip(value.split(',')), a group kept when all its chars are letters
RECURSIVE channel_modes(_, _)
channel_modes(items, i) ==
    IF i > Len(items) \/ i > Len(UpperSeq) THEN <<>>
    ELSE (IF all_ascii_alphabetic(items[i])
          THEN << [kind |-> UpperSeq[i], modes |-> items[i]] >>
          ELSE <<>>) \o channel_modes(items, i + 1)

\* CLIENTTAGDENY: what one comma item pushes
client_tag_denial_item(client_tag_denial) ==
    IF client_tag_denial # <<>> /\ Head(client_tag_denial) = "*"
        THEN [tag |-> "DenyAll", name |-> <<>>]
    ELSE IF client_tag_denial # <<>> /\ Head(client_tag_denial) = "-"
        THEN [tag |-> "Allowed", name |-> Tail(client_tag_denial)]
    ELSE [tag |-> "Denied", name |-> client_tag_denial]

client_tag_denials(items) ==
    [i \in 1..Len(items) |-> client_tag_denial_item(items[i])]

\* CLIENTVER: <major>.<minor>, both u16
clientver(value) ==
    LET sp == split_once(value, ".")
    IN  IF sp # None /\ parse_u16(sp[1][1]) # None /\ parse_u16(sp[1][2]) # None
        THEN Ok(Add(Parameter("CLIENTVER",
                 << parse_u16(sp[1][1])[1], parse_u16(sp[1][2])[1] >>)))
        ELSE Err("value must be a <major>.<minor> version number")

\* ELIST: upper-cased, every char one of "CMNTU"
elist(value) ==
    IF value # <<>>
    THEN IF \A i \in 1..Len(value) :
               to_uppercase_char(value[i]) \in {"C", "M", "N", "T", "U"}
         THEN Ok(Add(Parameter("ELIST", to_uppercase(value))))
         ELSE Err("value required to only contain valid search extensions")
    ELSE Err("value required")

\* The one character of the modelled alphabet outside ASCII
NonAscii == "é"

\* str::is_ascii
is_ascii(s) == \A i \in 1..Len(s) : s[i] # NonAscii

\* EXTBAN: prefix,types
extban(value) ==
    LET sp == split_once(value, ",")
    IN  IF sp # None
        THEN IF all_ascii_alphabetic(sp[1][2])
             THEN IF sp[1][1] = <<>>
                      THEN Ok(Add(Parameter("EXTBAN", << None, sp[1][2] >>)))
                  ELSE IF is_ascii(sp[1][1])
                      THEN Ok(Add(Parameter("EXTBAN", << Some(Head(sp[1][1])), sp[1][2] >>)))
                  ELSE Err("invalid extended ban prefix(es)")
             ELSE Err("invalid extended ban type(s)")
        ELSE Err("no valid extended ban masks")

\* MAXLIST: what one comma item pushes
modes_limit_item(modes_limit) ==
    LET sp == split_once(modes_limit, ":")
    IN  IF sp # None /\ sp[1][1] # <<>> /\ all_ascii_alphabetic(sp[1][1])
           /\ parse_u16(sp[1][2]) # None
        THEN << [modes |-> sp[1][1], limit |-> parse_u16(sp[1][2])[1]] >>
        ELSE <<>>

RECURSIVE modes_limits(_)
modes_limits(items) ==
    IF items = <<>> THEN <<>>
    ELSE modes_limit_item(Head(items)) \o modes_limits(Tail(items))

\* MSGREFTYPES with each recognised item pushed at the end
RECURSIVE message_reference_types_appending(_, _)
message_reference_types_appending(items, acc) ==
    IF items = <<>> THEN acc
    ELSE LET item == Join(Head(items))
         IN  message_reference_types_appending(Tail(items),
                CASE item = "msgid" -> acc \o << "MessageId" >>
                  [] item = "timestamp" -> acc \o << "Timestamp" >>
                  [] OTHER -> acc)

\* MSGREFTYPES: each recognised item is inserted at index 0
RECURSIVE message_reference_types(_, _)
message_reference_types(items, acc) ==
    IF items = <<>> THEN acc
    ELSE LET item == Join(Head(items))
         IN  message_reference_types(Tail(items),
                CASE item = "msgid" -> << "MessageId" >> \o acc
                  [] item = "timestamp" -> << "Timestamp" >> \o acc
                  [] OTHER -> acc)

\* PREFIX pairing that does not skip the first character of the modes
prefix_maps_without_skip(modes, prefixes) ==
    [i \in 1..(IF Len(modes) < Len(prefixes) THEN Len(modes) ELSE Len(prefixes)) |->
        [mode |-> modes[i], prefix |-> prefixes[i]]]

\* PREFIX: modes.chars().skip(1).zip(prefixes.chars())
prefix_maps(modes, prefixes) ==
    LET ms == skip1(modes)
        n == IF Len(ms) < Len(prefixes) THEN Len(ms) ELSE Len(prefixes)
    IN  [i \in 1..n |-> [mode |-> ms[i], prefix |-> prefixes[i]]]

prefix(value) ==
    LET sp == split_once(value, ")")
    IN  IF sp # None
        THEN Ok(Add(Parameter("PREFIX", prefix_maps(sp[1][1], sp[1][2]))))
        ELSE Err("unrecognized PREFIX format")

\* TARGMAX: what one comma item pushes
command_target_limit_item(command_target_limit) ==
    LET sp == split_once(command_target_limit, ":")
    IN  IF sp # None /\ sp[1][1] # <<>> /\ all_ascii_alphabetic(sp[1][1])
        THEN IF sp[1][2] = <<>>
                 THEN << [command |-> to_uppercase(sp[1][1]), limit |-> None] >>
             ELSE IF parse_u16(sp[1][2]) # None
                 THEN << [command |-> to_uppercase(sp[1][1]),
                          limit |-> Some(parse_u16(sp[1][2])[1])] >>
             ELSE <<>>
        ELSE <<>>

RECURSIVE command_target_limits(_)
command_target_limits(items) ==
    IF items = <<>> THEN <<>>
    ELSE command_target_limit_item(Head(items)) \o command_target_limits(Tail(items))

---------------------------------------------------------------------------
(* Operation::from_str *)

\* The arm taken when the token holds a '=': match parameter { ... }
from_str_value(parameter, value) ==
    LET p == Join(parameter)
    IN  CASE p = "ACCEPT" ->
                 add_parsed("ACCEPT", parse_required_positive_integer(value))
          [] p = "ACCOUNTEXTBAN" ->
                 add_non_empty("ACCOUNTEXTBAN", split(value, ","),
                 "no valid account-based extended ban masks")
          [] p = "AWAYLEN" ->
                 add_parsed("AWAYLEN", parse_required_positive_integer(value))
          [] p = "BOT" ->
                 add_parsed("BOT", parse_required_letter(value, None))
          [] p = "CALLERID" ->
                 add_parsed("CALLERID", parse_required_letter(value, Some(DEFAULT_CALLER_ID_LETTER)))
          [] p = "CASEMAPPING" ->
                 casemapping(value)
          [] p = "CHANLIMIT" ->
                 add_non_empty("CHANLIMIT", channel_limits(split(value, ",")),
                 "no valid channel limits")
          [] p = "CHANMODES" ->
                 add_non_empty("CHANMODES", channel_modes(split(value, ","), 1),
                 "no valid channel modes")
          [] p = "CHANNELLEN" ->
                 add_parsed("CHANNELLEN", parse_required_positive_integer(value))
          [] p = "CHANTYPES" ->
                 IF value = <<>> THEN Ok(Add(Parameter("CHANTYPES", None)))
                 ELSE Ok(Add(Parameter("CHANTYPES", Some(value))))
          [] p \in {"CHATHISTORY", "draft/CHATHISTORY"} ->
                 add_parsed("CHATHISTORY", parse_required_positive_integer(value))
          [] p = "CLIENTTAGDENY" ->
                 add_non_empty("CLIENTTAGDENY", client_tag_denials(split(value, ",")),
                 "no valid client tag denials")
          [] p = "CLIENTVER" ->
                 clientver(value)
          [] p = "CNOTICE" ->
                 Ok(Add(Unit("CNOTICE")))
          [] p = "CPRIVMSG" ->
                 Ok(Add(Unit("CPRIVMSG")))
          [] p = "DEAF" ->
                 add_parsed("DEAF", parse_required_letter(value, Some(DEFAULT_DEAF_LETTER)))
          [] p = "ELIST" ->
                 elist(value)
          [] p = "ESILENCE" ->
                 add_parsed("ESILENCE", parse_optional_letters(value))
          [] p = "ETRACE" ->
                 Ok(Add(Unit("ETRACE")))
          [] p = "EXCEPTS" ->
                 add_parsed("EXCEPTS", parse_required_letter(value, Some(DEFAULT_BAN_EXCEPTION_CHANNEL_LETTER)))
          [] p = "EXTBAN" ->
                 extban(value)
          [] p = "FNC" ->
                 Ok(Add(Unit("FNC")))
          [] p = "HOSTLEN" ->
                 add_parsed("HOSTLEN", parse_required_positive_integer(value))
          [] p = "INVEX" ->
                 add_parsed("INVEX", parse_required_letter(value, Some(DEFAULT_INVITE_EXCEPTION_LETTER)))
          [] p = "KEYLEN" ->
                 add_parsed("KEYLEN", parse_required_positive_integer(value))
          [] p = "KICKLEN" ->
                 add_parsed("KICKLEN", parse_required_positive_integer(value))
          [] p = "KNOCK" ->
                 Ok(Add(Unit("KNOCK")))
          [] p = "LINELEN" ->
                 add_parsed("LINELEN", parse_required_positive_integer(value))
          [] p = "MAP" ->
                 Ok(Add(Unit("MAP")))
          [] p = "MAXBANS" ->
                 add_parsed("MAXBANS", parse_required_positive_integer(value))
          [] p = "MAXCHANNELS" ->
                 add_parsed("MAXCHANNELS", parse_required_positive_integer(value))
          [] p = "MAXLIST" ->
                 add_non_empty("MAXLIST", modes_limits(split(value, ",")),
                 "no valid modes limits")
          [] p = "MAXPARA" ->
                 add_parsed("MAXPARA", parse_required_positive_integer(value))
          [] p = "MAXTARGETS" ->
                 add_parsed("MAXTARGETS", parse_optional_positive_integer(value))
          [] p = "METADATA" ->
                 add_parsed("METADATA", parse_optional_positive_integer(value))
          [] p = "MODES" ->
                 add_parsed("MODES", parse_optional_positive_integer(value))
          [] p = "MONITOR" ->
                 add_parsed("MONITOR", parse_optional_positive_integer(value))
          [] p = "MSGREFTYPES" ->
                 Ok(Add(Parameter("MSGREFTYPES",
                     message_reference_types(split(value, ","), <<>>))))
          [] p = "NAMELEN" ->
                 add_parsed("NAMELEN", parse_required_positive_integer(value))
          [] p = "NAMESX" ->
                 Ok(Add(Unit("NAMESX")))
          [] p = "NETWORK" ->
                 Ok(Add(Parameter("NETWORK", value)))
          [] p \in {"NICKLEN", "MAXNICKLEN"} ->
                 add_parsed("NICKLEN", parse_required_positive_integer(value))
          [] p = "OVERRIDE" ->
                 Ok(Add(Unit("OVERRIDE")))
          [] p = "PREFIX" ->
                 prefix(value)
          [] p = "SAFELIST" ->
                 Ok(Add(Unit("SAFELIST")))
          [] p = "SECURELIST" ->
                 Ok(Add(Unit("SECURELIST")))
          [] p = "SILENCE" ->
                 add_parsed("SILENCE", parse_optional_positive_integer(value))
          [] p = "STATUSMSG" ->
                 Ok(Add(Parameter("STATUSMSG", value)))
          [] p = "TARGMAX" ->
                 add_non_empty("TARGMAX", command_target_limits(split(value, ",")),
                 "no valid command target limits")
          [] p = "TOPICLEN" ->
                 add_parsed("TOPICLEN", parse_required_positive_integer(value))
          [] p = "UHNAMES" ->
                 Ok(Add(Unit("UHNAMES")))
          [] p = "USERIP" ->
                 Ok(Add(Unit("USERIP")))
          [] p = "USERLEN" ->
                 add_parsed("USERLEN", parse_required_positive_integer(value))
          [] p = "UTF8ONLY" ->
                 Ok(Add(Unit("UTF8ONLY")))
          [] p = "VLIST" ->
                 add_parsed("VLIST", parse_required_letters(value))
          [] p = "WATCH" ->
                 add_parsed("WATCH", parse_required_positive_integer(value))
          [] p = "WHOX" ->
                 Ok(Add(Unit("WHOX")))
          [] OTHER -> Err("unknown ISUPPORT parameter")

\* Operation::from_str that reads a bare key as the key with an empty value
from_str_bare_as_empty_value(token_) == from_str_value(token_, <<>>)

\* The arm taken when the token holds no '=': match token { ... }
from_str_bare(token_) ==
    LET t == Join(token_)
    IN  CASE t = "ACCEPT" -> Err("value required")
          [] t = "ACCOUNTEXTBAN" -> Err("value(s) required")
          [] t = "AWAYLEN" -> Err("value required")
          [] t = "BOT" -> Err("value required")
          [] t = "CALLERID" -> Ok(Add(Parameter("CALLERID", DEFAULT_CALLER_ID_LETTER)))
          [] t = "CASEMAPPING" -> Err("value required")
          [] t = "CHANLIMIT" -> Err("value(s) required")
          [] t = "CHANMODES" -> Err("value(s) required")
          [] t = "CHANNELLEN" -> Err("value required")
          [] t = "CHANTYPES" -> Ok(Add(Parameter("CHANTYPES", None)))
          [] t = "CHATHISTORY" -> Err("value required")
          [] t = "CLIENTTAGDENY" -> Err("value(s) required")
          [] t = "CLIENTVER" -> Err("value required")
          [] t = "DEAF" -> Ok(Add(Parameter("DEAF", DEFAULT_DEAF_LETTER)))
          [] t = "ELIST" -> Err("value required")
          [] t = "ESILENCE" -> Ok(Add(Parameter("ESILENCE", None)))
          [] t = "ETRACE" -> Ok(Add(Unit("ETRACE")))
          [] t = "EXCEPTS" -> Ok(Add(Parameter("EXCEPTS", DEFAULT_BAN_EXCEPTION_CHANNEL_LETTER)))
          [] t = "EXTBAN" -> Err("value required")
          [] t = "FNC" -> Ok(Add(Unit("FNC")))
          [] t = "HOSTLEN" -> Err("value required")
          [] t = "INVEX" -> Ok(Add(Parameter("INVEX", DEFAULT_INVITE_EXCEPTION_LETTER)))
          [] t = "KEYLEN" -> Err("value required")
          [] t = "KICKLEN" -> Err("value required")
          [] t = "KNOCK" -> Ok(Add(Unit("KNOCK")))
          [] t = "LINELEN" -> Err("value required")
          [] t = "MAP" -> Ok(Add(Unit("MAP")))
          [] t = "MAXBANS" -> Err("value required")
          [] t = "MAXCHANNELS" -> Err("value required")
          [] t = "MAXLIST" -> Err("value(s) required")
          [] t = "MAXPARA" -> Err("value required")
          [] t = "MAXTARGETS" -> Ok(Add(Parameter("MAXTARGETS", None)))
          [] t = "METADATA" -> Ok(Add(Parameter("METADATA", None)))
          [] t = "MODES" -> Ok(Add(Parameter("MODES", None)))
          [] t = "MONITOR" -> Ok(Add(Parameter("MONITOR", None)))
          [] t = "MSGREFTYPES" -> Ok(Add(Parameter("MSGREFTYPES", <<>>)))
          [] t = "NAMELEN" -> Err("value required")
          [] t = "NAMESX" -> Ok(Add(Unit("NAMESX")))
          [] t = "NETWORK" -> Err("value required")
          [] t \in {"NICKLEN", "MAXNICKLEN"} -> Err("value required")
          [] t = "OVERRIDE" -> Ok(Add(Unit("OVERRIDE")))
          [] t = "PREFIX" -> Ok(Add(Parameter("PREFIX", <<>>)))
          [] t = "SAFELIST" -> Ok(Add(Unit("SAFELIST")))
          [] t = "SECURELIST" -> Ok(Add(Unit("SECURELIST")))
          [] t = "SILENCE" -> Ok(Add(Parameter("SILENCE", None)))
          [] t = "STATUSMSG" -> Err("value required")
          [] t = "TARGMAX" -> Ok(Add(Parameter("TARGMAX", <<>>)))
          [] t = "TOPICLEN" -> Err("value required")
          [] t = "UHNAMES" -> Ok(Add(Unit("UHNAMES")))
          [] t = "USERIP" -> Ok(Add(Unit("USERIP")))
          [] t = "USERLEN" -> Err("value required")
          [] t = "UTF8ONLY" -> Ok(Add(Unit("UTF8ONLY")))
          [] t = "VLIST" -> Err("value required")
          [] t = "WATCH" -> Err("value required")
          [] t = "WHOX" -> Ok(Add(Unit("WHOX")))
          [] OTHER -> Err("unknown ISUPPORT parameter")

\* Operation::from_str that leaves the '-' in the removed name
Operation_from_str_keeps_minus(token_) ==
    IF token_ = <<>> THEN Err("empty ISUPPORT token not allowed")
    ELSE IF Head(token_) = "-" THEN Ok(Remove(token_))
    ELSE LET sp == split_once(token_, "=")
         IN  IF sp # None THEN from_str_value(sp[1][1], sp[1][2])
             ELSE from_str_bare(token_)

Operation_from_str(token_) ==
    IF token_ = <<>> THEN Err("empty ISUPPORT token not allowed")
    ELSE IF Head(token_) = "-" THEN Ok(Remove(Tail(token_)))
    ELSE LET sp == split_once(token_, "=")
         IN  IF sp # None THEN from_str_value(sp[1][1], sp[1][2])
             ELSE from_str_bare(token_)

---------------------------------------------------------------------------
(* Kind, Parameter::kind and Operation::kind *)

\* enum Kind
Kind ==
    { "AWAYLEN", "CASEMAPPING", "CHANLIMIT", "CHANMODES", "CHANNELLEN", "CHANTYPES",
      "CHATHISTORY", "CNOTICE", "CPRIVMSG", "ELIST", "KEYLEN", "KICKLEN",
      "KNOCK", "MODES", "MONITOR", "MSGREFTYPES", "NAMELEN", "NICKLEN",
      "PREFIX", "SAFELIST", "STATUSMSG", "TARGMAX", "TOPICLEN", "USERIP",
      "UTF8ONLY", "WHOX" }

\* Parameter::kind without the UTF8ONLY arm
Parameter_kind_without_UTF8ONLY(parameter) ==
    IF parameter.tag \in Kind \ { "UTF8ONLY" } THEN Some(parameter.tag) ELSE None

\* Parameter::kind with the CHANTYPES arm answering Kind::CHANMODES
Parameter_kind_CHANTYPES_as_CHANMODES(parameter) ==
    IF parameter.tag = "CHANTYPES" THEN Some("CHANMODES")
    ELSE IF parameter.tag \in Kind THEN Some(parameter.tag) ELSE None

\* Parameter::kind with a kind for every variant
Parameter_kind_for_every_variant(parameter) == Some(parameter.tag)

Parameter_kind(parameter) ==
    CASE parameter.tag = "AWAYLEN" -> Some("AWAYLEN")
      [] parameter.tag = "CASEMAPPING" -> Some("CASEMAPPING")
      [] parameter.tag = "CHANLIMIT" -> Some("CHANLIMIT")
      [] parameter.tag = "CHANMODES" -> Some("CHANMODES")
      [] parameter.tag = "CHANNELLEN" -> Some("CHANNELLEN")
      [] parameter.tag = "CHANTYPES" -> Some("CHANTYPES")
      [] parameter.tag = "CHATHISTORY" -> Some("CHATHISTORY")
      [] parameter.tag = "CNOTICE" -> Some("CNOTICE")
      [] parameter.tag = "CPRIVMSG" -> Some("CPRIVMSG")
      [] parameter.tag = "ELIST" -> Some("ELIST")
      [] parameter.tag = "KEYLEN" -> Some("KEYLEN")
      [] parameter.tag = "KICKLEN" -> Some("KICKLEN")
      [] parameter.tag = "KNOCK" -> Some("KNOCK")
      [] parameter.tag = "MODES" -> Some("MODES")
      [] parameter.tag = "MONITOR" -> Some("MONITOR")
      [] parameter.tag = "MSGREFTYPES" -> Some("MSGREFTYPES")
      [] parameter.tag = "NAMELEN" -> Some("NAMELEN")
      [] parameter.tag = "NICKLEN" -> Some("NICKLEN")
      [] parameter.tag = "PREFIX" -> Some("PREFIX")
      [] parameter.tag = "SAFELIST" -> Some("SAFELIST")
      [] parameter.tag = "STATUSMSG" -> Some("STATUSMSG")
      [] parameter.tag = "TARGMAX" -> Some("TARGMAX")
      [] parameter.tag = "TOPICLEN" -> Some("TOPICLEN")
      [] parameter.tag = "USERIP" -> Some("USERIP")
      [] parameter.tag = "UTF8ONLY" -> Some("UTF8ONLY")
      [] parameter.tag = "WHOX" -> Some("WHOX")
      [] OTHER -> None

\* Operation::kind for Operation::Remove without the "WHOX" arm
Remove_kind_without_WHOX(name) ==
    IF Join(name) \in Kind \ { "WHOX" } THEN Some(Join(name)) ELSE None

\* Operation::kind for Operation::Remove(parameter)
Remove_kind(name) ==
    LET n == Join(name)
    IN  CASE n = "AWAYLEN" -> Some("AWAYLEN")
          [] n = "CASEMAPPING" -> Some("CASEMAPPING")
          [] n = "CHANLIMIT" -> Some("CHANLIMIT")
          [] n = "CHANMODES" -> Some("CHANMODES")
          [] n = "CHANNELLEN" -> Some("CHANNELLEN")
          [] n = "CHANTYPES" -> Some("CHANTYPES")
          [] n = "CHATHISTORY" -> Some("CHATHISTORY")
          [] n = "CNOTICE" -> Some("CNOTICE")
          [] n = "CPRIVMSG" -> Some("CPRIVMSG")
          [] n = "ELIST" -> Some("ELIST")
          [] n = "KEYLEN" -> Some("KEYLEN")
          [] n = "KICKLEN" -> Some("KICKLEN")
          [] n = "KNOCK" -> Some("KNOCK")
          [] n = "MODES" -> Some("MODES")
          [] n = "MONITOR" -> Some("MONITOR")
          [] n = "MSGREFTYPES" -> Some("MSGREFTYPES")
          [] n = "NAMELEN" -> Some("NAMELEN")
          [] n = "NICKLEN" -> Some("NICKLEN")
          [] n = "PREFIX" -> Some("PREFIX")
          [] n = "SAFELIST" -> Some("SAFELIST")
          [] n = "STATUSMSG" -> Some("STATUSMSG")
          [] n = "TARGMAX" -> Some("TARGMAX")
          [] n = "TOPICLEN" -> Some("TOPICLEN")
          [] n = "USERIP" -> Some("USERIP")
          [] n = "UTF8ONLY" -> Some("UTF8ONLY")
          [] n = "WHOX" -> Some("WHOX")
          [] OTHER -> None

Operation_kind(operation) ==
    IF operation.op = "Add" THEN Parameter_kind(operation.param)
    ELSE Remove_kind(operation.name)

---------------------------------------------------------------------------
(* The input alphabet: the texts tokens are built from *)

\* Every key Operation::from_str knows, with its alias spellings, and keys it does not know
KeyText ==
       ("ACCEPT" :> << "A", "C", "C", "E", "P", "T" >>)
    @@ ("ACCOUNTEXTBAN" :> << "A", "C", "C", "O", "U", "N", "T", "E", "X", "T", "B", "A", "N" >>)
    @@ ("AWAYLEN" :> << "A", "W", "A", "Y", "L", "E", "N" >>)
    @@ ("BOT" :> << "B", "O", "T" >>)
    @@ ("CALLERID" :> << "C", "A", "L", "L", "E", "R", "I", "D" >>)
    @@ ("CASEMAPPING" :> << "C", "A", "S", "E", "M", "A", "P", "P", "I", "N", "G" >>)
    @@ ("CHANLIMIT" :> << "C", "H", "A", "N", "L", "I", "M", "I", "T" >>)
    @@ ("CHANMODES" :> << "C", "H", "A", "N", "M", "O", "D", "E", "S" >>)
    @@ ("CHANNELLEN" :> << "C", "H", "A", "N", "N", "E", "L", "L", "E", "N" >>)
    @@ ("CHANTYPES" :> << "C", "H", "A", "N", "T", "Y", "P", "E", "S" >>)
    @@ ("CHATHISTORY" :> << "C", "H", "A", "T", "H", "I", "S", "T", "O", "R", "Y" >>)
    @@ ("draft/CHATHISTORY" :> << "d", "r", "a", "f", "t", "/", "C", "H", "A", "T", "H", "I", "S", "T", "O", "R", "Y" >>)
    @@ ("CLIENTTAGDENY" :> << "C", "L", "I", "E", "N", "T", "T", "A", "G", "D", "E", "N", "Y" >>)
    @@ ("CLIENTVER" :> << "C", "L", "I", "E", "N", "T", "V", "E", "R" >>)
    @@ ("CNOTICE" :> << "C", "N", "O", "T", "I", "C", "E" >>)
    @@ ("CPRIVMSG" :> << "C", "P", "R", "I", "V", "M", "S", "G" >>)
    @@ ("DEAF" :> << "D", "E", "A", "F" >>)
    @@ ("ELIST" :> << "E", "L", "I", "S", "T" >>)
    @@ ("ESILENCE" :> << "E", "S", "I", "L", "E", "N", "C", "E" >>)
    @@ ("ETRACE" :> << "E", "T", "R", "A", "C", "E" >>)
    @@ ("EXCEPTS" :> << "E", "X", "C", "E", "P", "T", "S" >>)
    @@ ("EXTBAN" :> << "E", "X", "T", "B", "A", "N" >>)
    @@ ("FNC" :> << "F", "N", "C" >>)
    @@ ("HOSTLEN" :> << "H", "O", "S", "T", "L", "E", "N" >>)
    @@ ("INVEX" :> << "I", "N", "V", "E", "X" >>)
    @@ ("KEYLEN" :> << "K", "E", "Y", "L", "E", "N" >>)
    @@ ("KICKLEN" :> << "K", "I", "C", "K", "L", "E", "N" >>)
    @@ ("KNOCK" :> << "K", "N", "O", "C", "K" >>)
    @@ ("LINELEN" :> << "L", "I", "N", "E", "L", "E", "N" >>)
    @@ ("MAP" :> << "M", "A", "P" >>)
    @@ ("MAXBANS" :> << "M", "A", "X", "B", "A", "N", "S" >>)
    @@ ("MAXCHANNELS" :> << "M", "A", "X", "C", "H", "A", "N", "N", "E", "L", "S" >>)
    @@ ("MAXLIST" :> << "M", "A", "X", "L", "I", "S", "T" >>)
    @@ ("MAXPARA" :> << "M", "A", "X", "P", "A", "R", "A" >>)
    @@ ("MAXTARGETS" :> << "M", "A", "X", "T", "A", "R", "G", "E", "T", "S" >>)
    @@ ("METADATA" :> << "M", "E", "T", "A", "D", "A", "T", "A" >>)
    @@ ("MODES" :> << "M", "O", "D", "E", "S" >>)
    @@ ("MONITOR" :> << "M", "O", "N", "I", "T", "O", "R" >>)
    @@ ("MSGREFTYPES" :> << "M", "S", "G", "R", "E", "F", "T", "Y", "P", "E", "S" >>)
    @@ ("NAMELEN" :> << "N", "A", "M", "E", "L", "E", "N" >>)
    @@ ("NAMESX" :> << "N", "A", "M", "E", "S", "X" >>)
    @@ ("NETWORK" :> << "N", "E", "T", "W", "O", "R", "K" >>)
    @@ ("NICKLEN" :> << "N", "I", "C", "K", "L", "E", "N" >>)
    @@ ("MAXNICKLEN" :> << "M", "A", "X", "N", "I", "C", "K", "L", "E", "N" >>)
    @@ ("OVERRIDE" :> << "O", "V", "E", "R", "R", "I", "D", "E" >>)
    @@ ("PREFIX" :> << "P", "R", "E", "F", "I", "X" >>)
    @@ ("SAFELIST" :> << "S", "A", "F", "E", "L", "I", "S", "T" >>)
    @@ ("SECURELIST" :> << "S", "E", "C", "U", "R", "E", "L", "I", "S", "T" >>)
    @@ ("SILENCE" :> << "S", "I", "L", "E", "N", "C", "E" >>)
    @@ ("STATUSMSG" :> << "S", "T", "A", "T", "U", "S", "M", "S", "G" >>)
    @@ ("TARGMAX" :> << "T", "A", "R", "G", "M", "A", "X" >>)
    @@ ("TOPICLEN" :> << "T", "O", "P", "I", "C", "L", "E", "N" >>)
    @@ ("UHNAMES" :> << "U", "H", "N", "A", "M", "E", "S" >>)
    @@ ("USERIP" :> << "U", "S", "E", "R", "I", "P" >>)
    @@ ("USERLEN" :> << "U", "S", "E", "R", "L", "E", "N" >>)
    @@ ("UTF8ONLY" :> << "U", "T", "F", "8", "O", "N", "L", "Y" >>)
    @@ ("VLIST" :> << "V", "L", "I", "S", "T" >>)
    @@ ("WATCH" :> << "W", "A", "T", "C", "H" >>)
    @@ ("WHOX" :> << "W", "H", "O", "X" >>)
    @@ ("FOO" :> << "F", "O", "O" >>)
    @@ ("awaylen" :> << "a", "w", "a", "y", "l", "e", "n" >>)
    @@ ("Nicklen" :> << "N", "i", "c", "k", "l", "e", "n" >>)
    @@ ("draft/NICKLEN" :> << "d", "r", "a", "f", "t", "/", "N", "I", "C", "K", "L", "E", "N" >>)
    @@ ("" :> <<>>)

\* Values that meet and that miss the keys' grammars
ValueText ==
       ("" :> <<>>)
    @@ ("5" :> << "5" >>)
    @@ ("10" :> << "1", "0" >>)
    @@ ("0" :> << "0" >>)
    @@ ("65535" :> << "6", "5", "5", "3", "5" >>)
    @@ ("65536" :> << "6", "5", "5", "3", "6" >>)
    @@ ("+5" :> << "+", "5" >>)
    @@ ("-5" :> << "-", "5" >>)
    @@ ("007" :> << "0", "0", "7" >>)
    @@ ("5x" :> << "5", "x" >>)
    @@ ("x" :> << "x" >>)
    @@ ("Dx" :> << "D", "x" >>)
    @@ ("g" :> << "g" >>)
    @@ ("1x" :> << "1", "x" >>)
    @@ ("ascii" :> << "a", "s", "c", "i", "i" >>)
    @@ ("ASCII" :> << "A", "S", "C", "I", "I" >>)
    @@ ("rfc1459" :> << "r", "f", "c", "1", "4", "5", "9" >>)
    @@ ("rfc1459-strict" :> << "r", "f", "c", "1", "4", "5", "9", "-", "s", "t", "r", "i", "c", "t" >>)
    @@ ("rfc7613" :> << "r", "f", "c", "7", "6", "1", "3" >>)
    @@ ("bogus" :> << "b", "o", "g", "u", "s" >>)
    @@ ("#:10,&:" :> << "#", ":", "1", "0", ",", "&", ":" >>)
    @@ ("#&:5" :> << "#", "&", ":", "5" >>)
    @@ ("#:5" :> << "#", ":", "5" >>)
    @@ ("#:x" :> << "#", ":", "x" >>)
    @@ ("#" :> << "#" >>)
    @@ ("b,k,l,imnpst" :> << "b", ",", "k", ",", "l", ",", "i", "m", "n", "p", "s", "t" >>)
    @@ ("b,k,l,i" :> << "b", ",", "k", ",", "l", ",", "i" >>)
    @@ ("b,k,l,i,x,y" :> << "b", ",", "k", ",", "l", ",", "i", ",", "x", ",", "y" >>)
    @@ ("b,1,l,i" :> << "b", ",", "1", ",", "l", ",", "i" >>)
    @@ (",,," :> << ",", ",", "," >>)
    @@ ("b,,l" :> << "b", ",", ",", "l" >>)
    @@ ("(ov)@+" :> << "(", "o", "v", ")", "@", "+" >>)
    @@ ("(o)@" :> << "(", "o", ")", "@" >>)
    @@ ("(ov)@" :> << "(", "o", "v", ")", "@" >>)
    @@ ("(o)@+" :> << "(", "o", ")", "@", "+" >>)
    @@ ("()" :> << "(", ")" >>)
    @@ ("ov" :> << "o", "v" >>)
    @@ (")" :> << ")" >>)
    @@ ("privmsg:4" :> << "p", "r", "i", "v", "m", "s", "g", ":", "4" >>)
    @@ ("PRIVMSG:4,JOIN:" :> << "P", "R", "I", "V", "M", "S", "G", ":", "4", ",", "J", "O", "I", "N", ":" >>)
    @@ ("JOIN:" :> << "J", "O", "I", "N", ":" >>)
    @@ ("a1:3" :> << "a", "1", ":", "3" >>)
    @@ (":3" :> << ":", "3" >>)
    @@ ("privmsg:x" :> << "p", "r", "i", "v", "m", "s", "g", ":", "x" >>)
    @@ ("b:10,e:20" :> << "b", ":", "1", "0", ",", "e", ":", "2", "0" >>)
    @@ ("b:" :> << "b", ":" >>)
    @@ ("beI:100" :> << "b", "e", "I", ":", "1", "0", "0" >>)
    @@ ("msgid,timestamp" :> << "m", "s", "g", "i", "d", ",", "t", "i", "m", "e", "s", "t", "a", "m", "p" >>)
    @@ ("timestamp,msgid" :> << "t", "i", "m", "e", "s", "t", "a", "m", "p", ",", "m", "s", "g", "i", "d" >>)
    @@ ("timestamp" :> << "t", "i", "m", "e", "s", "t", "a", "m", "p" >>)
    @@ ("foo,msgid" :> << "f", "o", "o", ",", "m", "s", "g", "i", "d" >>)
    @@ ("1.2" :> << "1", ".", "2" >>)
    @@ ("1." :> << "1", "." >>)
    @@ ("~,qjncrRa" :> << "~", ",", "q", "j", "n", "c", "r", "R", "a" >>)
    @@ (",abc" :> << ",", "a", "b", "c" >>)
    @@ ("é,a" :> << "é", ",", "a" >>)
    @@ ("~,q1" :> << "~", ",", "q", "1" >>)
    @@ ("*,-a,b" :> << "*", ",", "-", "a", ",", "b" >>)
    @@ ("CMNTU" :> << "C", "M", "N", "T", "U" >>)
    @@ ("c" :> << "c" >>)
    @@ ("cx" :> << "c", "x" >>)
    @@ ("#&" :> << "#", "&" >>)
    @@ ("@+" :> << "@", "+" >>)
    @@ ("=5" :> << "=", "5" >>)
    @@ ("a=b" :> << "a", "=", "b" >>)
    @@ ("a,b,c,d,e,f,g,h,i,j,k,l,m,n,o,p,q,r,s,t,u,v,w,x,y,z,a" :>
          << "a", ",", "b", ",", "c", ",", "d", ",", "e", ",", "f", ",", "g", ",", "h",
             ",", "i", ",", "j", ",", "k", ",", "l", ",", "m", ",", "n", ",", "o", ",",
             "p", ",", "q", ",", "r", ",", "s", ",", "t", ",", "u", ",", "v", ",", "w",
             ",", "x", ",", "y", ",", "z", ",", "a" >>)
    @@ ("PRIVMSG:4,PRIVMSG:" :>
          << "P", "R", "I", "V", "M", "S", "G", ":", "4", ",", "P", "R", "I", "V", "M", "S", "G", ":" >>)
    @@ ("PRIVMSG:,PRIVMSG:4" :>
          << "P", "R", "I", "V", "M", "S", "G", ":", ",", "P", "R", "I", "V", "M", "S", "G", ":", "4" >>)
    @@ ("libera.chat" :> << "l", "i", "b", "e", "r", "a", ".", "c", "h", "a", "t" >>)

\* KEY
bare(k) == KeyText[k]

\* KEY=value
with_value(k, v) == KeyText[k] \o << "=" >> \o ValueText[v]

\* -KEY
minus(k) == << "-" >> \o KeyText[k]

---------------------------------------------------------------------------
(* The capability table: the connection applies each parsed Operation *)

\* HashMap::new
EmptyTable == <<>>

\* HashMap::insert
insert(table, k, v) == [x \in DOMAIN table \cup {k} |-> IF x = k THEN v ELSE table[x]]

\* HashMap::remove
remove(table, k) == [x \in DOMAIN table \ {k} |-> table[x]]

\* HashMap::get
get(table, k) == IF k \in DOMAIN table THEN Some(table[k]) ELSE None

\* Add(p): stored at p.kind() when there is one; Remove(name): the entry of its kind erased
apply(table, operation) ==
    LET kind == Operation_kind(operation)
    IN  IF kind = None THEN table
        ELSE IF operation.op = "Add" THEN insert(table, kind[1], operation.param)
        ELSE remove(table, kind[1])

\* One token of a 005 line with the parser's answer r: applied on Ok, skipped on Err
handle(table, r) == IF r.ok THEN apply(table, r.val) ELSE table

---------------------------------------------------------------------------
(* The accessors of the table *)

\* Option::flatten
flatten(o) == IF o = None THEN None ELSE o[1]

\* iter().find_map(|target_limit| (target_limit.command == command).then_some(limit))
RECURSIVE find_map_limit(_, _)
find_map_limit(target_limits, command) ==
    IF target_limits = <<>> THEN None
    ELSE IF Head(target_limits).command = command THEN Some(Head(target_limits).limit)
    ELSE find_map_limit(Tail(target_limits), command)

\* find_target_limit that answers the first limit given for the command, passing over
\* the entries without limit
find_target_limit_first_given(table, command) ==
    LET given == SelectSeq(IF get(table, "TARGMAX") # None
                               THEN get(table, "TARGMAX")[1].val ELSE <<>>,
                           LAMBDA e : e.command = command /\ e.limit # None)
    IN  IF given = <<>> THEN None ELSE Head(given).limit

find_target_limit(table, command) ==
    IF get(table, "TARGMAX") # None /\ get(table, "TARGMAX")[1].tag = "TARGMAX"
    THEN flatten(find_map_limit(get(table, "TARGMAX")[1].val, command))
    ELSE None

\* get_mode_limit_or_default that takes a stored entry without limit for a missing one
get_mode_limit_or_default_flattened(table) ==
    IF get(table, "MODES") # None /\ get(table, "MODES")[1].tag = "MODES"
           /\ get(table, "MODES")[1].val # None
    THEN get(table, "MODES")[1].val
    ELSE Some(3)

\* get(&Kind::MODES).and_then(..).unwrap_or(Some(3)): the stored Option<u16>, Some(3)
\* without an entry and on corruption
get_mode_limit_or_default(table) ==
    IF get(table, "MODES") # None /\ get(table, "MODES")[1].tag = "MODES"
    THEN get(table, "MODES")[1].val
    ELSE Some(3)

\* #[default] of CaseMap
CaseMap_default == "RFC7613"

\* get_casemapping_or_default with RFC1459 for the default
get_casemapping_or_default_rfc1459(table) ==
    IF get(table, "CASEMAPPING") # None /\ get(table, "CASEMAPPING")[1].tag = "CASEMAPPING"
    THEN get(table, "CASEMAPPING")[1].val
    ELSE "RFC1459"

get_casemapping_or_default(table) ==
    IF get(table, "CASEMAPPING") # None /\ get(table, "CASEMAPPING")[1].tag = "CASEMAPPING"
    THEN get(table, "CASEMAPPING")[1].val
    ELSE CaseMap_default

DEFAULT_CHANMODES ==
    << [kind |-> "A", modes |-> << "b", "e", "I" >>],
       [kind |-> "B", modes |-> << "k" >>],
       [kind |-> "C", modes |-> << "l" >>],
       [kind |-> "D", modes |-> << "i", "m", "s", "t", "n" >>] >>

\* get(&Kind::CHANMODES).and_then(..).unwrap_or(DEFAULT_CHANMODES)
get_chanmodes_or_default(table) ==
    IF get(table, "CHANMODES") # None /\ get(table, "CHANMODES")[1].tag = "CHANMODES"
    THEN get(table, "CHANMODES")[1].val
    ELSE DEFAULT_CHANMODES

\* get(&Kind::STATUSMSG).map_or(&[], ..): the stored prefixes, none without an entry and
\* on corruption
get_statusmsg_or_default(table) ==
    IF get(table, "STATUSMSG") # None /\ get(table, "STATUSMSG")[1].tag = "STATUSMSG"
    THEN get(table, "STATUSMSG")[1].val
    ELSE <<>>

\* proto::FOUNDER_PREFIX, proto::PROTECTED_PREFIX_STD, proto::OPERATOR_PREFIX,
\* proto::HALF_OPERATOR_PREFIX and proto::VOICED_PREFIX
FOUNDER_PREFIX == "~"

PROTECTED_PREFIX_STD == "&"

OPERATOR_PREFIX == "@"

HALF_OPERATOR_PREFIX == "%"

VOICED_PREFIX == "+"

DEFAULT_PREFIX ==
    << [prefix |-> FOUNDER_PREFIX, mode |-> "q"],
       [prefix |-> PROTECTED_PREFIX_STD, mode |-> "a"],
       [prefix |-> OPERATOR_PREFIX, mode |-> "o"],
       [prefix |-> HALF_OPERATOR_PREFIX, mode |-> "h"],
       [prefix |-> VOICED_PREFIX, mode |-> "v"] >>

\* proto::DEFAULT_CHANNEL_PREFIXES
DEFAULT_CHANNEL_PREFIXES == << "#", "&" >>

\* get(&Kind::CHANTYPES).and_then(.. types.as_deref() ..).unwrap_or(DEFAULT_CHANNEL_PREFIXES):
\* CHANTYPES(None) falls to the default as an absent entry does
get_chantypes_or_default(table) ==
    IF /\ get(table, "CHANTYPES") # None
       /\ get(table, "CHANTYPES")[1].tag = "CHANTYPES"
       /\ get(table, "CHANTYPES")[1].val # None
    THEN get(table, "CHANTYPES")[1].val[1]
    ELSE DEFAULT_CHANNEL_PREFIXES

\* get(&Kind::PREFIX).and_then(..): Some(list) of a stored PREFIX, None otherwise
get_prefix(table) ==
    IF get(table, "PREFIX") # None /\ get(table, "PREFIX")[1].tag = "PREFIX"
    THEN Some(get(table, "PREFIX")[1].val)
    ELSE None

\* get_prefix_or_default that takes an empty stored list for no list
get_prefix_or_default_when_empty(table) ==
    IF get_prefix(table) # None /\ get_prefix(table)[1] # <<>>
    THEN get_prefix(table)[1]
    ELSE DEFAULT_PREFIX

\* get_prefix(isupport).unwrap_or(DEFAULT_PREFIX)
get_prefix_or_default(table) ==
    IF get_prefix(table) # None THEN get_prefix(table)[1] ELSE DEFAULT_PREFIX

---------------------------------------------------------------------------
(* Message references *)

\* MessageReference::Timestamp(server_time), the time in seconds
Timestamp(server_time) == [tag |-> "Timestamp", server_time |-> server_time]

\* MessageReference::MessageId(id)
MessageId(id) == [tag |-> "MessageId", id |-> id]

\* MessageReference::None
NoReference == [tag |-> "None"]

\* chrono::Duration::seconds(5)
FUZZ_SECONDS == 5

fuzz_start_message_reference(message_reference) ==
    IF message_reference.tag = "Timestamp"
    THEN Timestamp(message_reference.server_time - FUZZ_SECONDS)
    ELSE message_reference

fuzz_end_message_reference(message_reference) ==
    IF message_reference.tag = "Timestamp"
    THEN Timestamp(message_reference.server_time + FUZZ_SECONDS)
    ELSE message_reference

\* fuzz_message_reference_range that takes the first reference for the earlier one
fuzz_message_reference_range_as_given(first_message_reference, second_message_reference) ==
    IF first_message_reference.tag = "Timestamp" /\ second_message_reference.tag = "Timestamp"
    THEN << fuzz_start_message_reference(first_message_reference),
            fuzz_end_message_reference(second_message_reference) >>
    ELSE << first_message_reference, second_message_reference >>

fuzz_message_reference_range(first_message_reference, second_message_reference) ==
    IF first_message_reference.tag = "Timestamp" /\ second_message_reference.tag = "Timestamp"
    THEN IF first_message_reference.server_time < second_message_reference.server_time
         THEN << fuzz_start_message_reference(first_message_reference),
                 fuzz_end_message_reference(second_message_reference) >>
         ELSE << fuzz_end_message_reference(first_message_reference),
                 fuzz_start_message_reference(second_message_reference) >>
    ELSE << first_message_reference, second_message_reference >>

---------------------------------------------------------------------------
(* Case mappings *)

CaseMap == { "ASCII", "RFC1459", "RFC1459_STRICT", "RFC7613" }

\* The arms of CaseMap::RFC1459_STRICT: the capitals, and the brackets and the backslash
\* to the braces and the bar
rfc1459_strict_char(c) ==
    CASE c \in Range(UpperSeq) -> LowerSeq[IndexOf(UpperSeq, c)]
      [] c = "[" -> "{"
      [] c = "]" -> "}"
      [] c = "\\" -> "|"
      [] OTHER -> c

\* The arms of CaseMap::RFC1459: those, and the tilde to the caret
rfc1459_char(c) ==
    CASE c \in Range(UpperSeq) -> LowerSeq[IndexOf(UpperSeq, c)]
      [] c = "[" -> "{"
      [] c = "]" -> "}"
      [] c = "\\" -> "|"
      [] c = "~" -> "^"
      [] OTHER -> c

\* CaseMap::normalize with the arms of RFC1459 for RFC1459_STRICT too
normalize_strict_as_rfc1459(casemap, from_str) ==
    CASE casemap = "ASCII" -> to_ascii_lowercase(from_str)
      [] casemap \in { "RFC1459", "RFC1459_STRICT" } ->
            [i \in 1..Len(from_str) |-> rfc1459_char(from_str[i])]
      [] casemap = "RFC7613" -> to_lowercase(from_str)

normalize(casemap, from_str) ==
    CASE casemap = "ASCII" -> to_ascii_lowercase(from_str)
      [] casemap = "RFC1459" -> [i \in 1..Len(from_str) |-> rfc1459_char(from_str[i])]
      [] casemap = "RFC1459_STRICT" ->
            [i \in 1..Len(from_str) |-> rfc1459_strict_char(from_str[i])]
      [] casemap = "RFC7613" -> to_lowercase(from_str)

---------------------------------------------------------------------------
(* WHOX tokens *)

\* '\0', the character an unused place of WhoToken::digits holds
NUL == "\\0"

\* WhoToken::from_str with the lower bound of the length dropped
WhoToken_from_str_allowing_empty(token_) ==
    IF Len(token_) \in 0..3 /\ all_ascii_digit(token_)
    THEN Ok([digits |-> [i \in 1..3 |-> IF i <= Len(token_) THEN token_[i] ELSE NUL]])
    ELSE Err("WHO token must be 1-3 ASCII digits")

\* WhoToken::from_str: one to three ASCII digits, written over ['\0', '\0', '\0']
WhoToken_from_str(token_) ==
    IF Len(token_) \in 1..3 /\ all_ascii_digit(token_)
    THEN Ok([digits |-> [i \in 1..3 |-> IF i <= Len(token_) THEN token_[i] ELSE NUL]])
    ELSE Err("WHO token must be 1-3 ASCII digits")

\* WhoToken::to_owned: the digits that are not '\0', collected
WhoToken_to_owned(self) == SelectSeq(self.digits, LAMBDA c : c # NUL)

WhoXPollParameters == { "Default", "WithAccountName" }

\* WhoXPollParameters::fields
WhoXPollParameters_fields(self) ==
    CASE self = "Default" -> "tcnf"
      [] self = "WithAccountName" -> "tcnfa"

\* WhoXPollParameters::token with one token for both requests
WhoXPollParameters_token_shared(self) ==
    [digits |-> << "9", NUL, NUL >>]

\* WhoXPollParameters::token
WhoXPollParameters_token(self) ==
    CASE self = "Default" -> [digits |-> << "9", NUL, NUL >>]
      [] self = "WithAccountName" -> [digits |-> << "9", "9", NUL >>]

---------------------------------------------------------------------------
(* The tokens a server sends *)

MaxTokens == 2

\* KEY=value tokens for every key that has a Kind and for the alias spellings, with a
\* second value for some
KindValues ==
    { << "AWAYLEN", "5" >>,
      << "CASEMAPPING", "ascii" >>,
      << "CHANLIMIT", "#:10,&:" >>,
      << "CHANMODES", "b,k,l,imnpst" >>, << "CHANMODES", "b,k,l,i" >>,
      << "CHANNELLEN", "5" >>,
      << "CHANTYPES", "#&" >>,
      << "CHATHISTORY", "10" >>, << "draft/CHATHISTORY", "10" >>,
      << "CNOTICE", "" >>,
      << "CPRIVMSG", "" >>,
      << "ELIST", "CMNTU" >>,
      << "KEYLEN", "5" >>,
      << "KICKLEN", "5" >>,
      << "MODES", "" >>, << "MODES", "5" >>,
      << "MONITOR", "5" >>,
      << "MSGREFTYPES", "msgid,timestamp" >>,
      << "NAMELEN", "5" >>,
      << "NICKLEN", "5" >>, << "NICKLEN", "10" >>, << "MAXNICKLEN", "10" >>,
      << "PREFIX", "(ov)@+" >>,
      << "STATUSMSG", "@+" >>,
      << "TARGMAX", "privmsg:4" >>,
      << "TOPICLEN", "5" >> }

\* KEY=value tokens for keys without a Kind
NoKindValues ==
    { << "WATCH", "5" >>, << "EXTBAN", "~,qjncrRa" >>, << "NETWORK", "libera.chat" >> }

\* KEY=value tokens the parser rejects
BadValues ==
    { << "AWAYLEN", "x" >>, << "PREFIX", "ov" >>, << "FOO", "5" >>, << "awaylen", "5" >> }

\* Bare keys: flags, default letters, keys that need a value, aliases, an unknown key, the
\* empty token
BareKeys ==
    { "KNOCK", "SAFELIST", "USERIP", "UTF8ONLY", "WHOX",
      "NAMESX", "CALLERID", "MODES",
      "AWAYLEN", "NICKLEN", "MAXNICKLEN", "CHATHISTORY", "draft/CHATHISTORY",
      "FOO", "" }

\* Names after '-': every Kind's key, the alias spellings, a key without a Kind, the empty name
RemovedKeys == Kind \cup { "MAXNICKLEN", "draft/CHATHISTORY", "WATCH", "" }

TableTokens ==
    { with_value(kv[1], kv[2]) : kv \in KindValues \cup NoKindValues \cup BadValues }
        \cup { bare(k) : k \in BareKeys }
        \cup { minus(k) : k \in RemovedKeys }
        \cup { << "-" >> \o with_value("NICKLEN", "5") }

---------------------------------------------------------------------------
(* The tokens a parser may be handed: every key, bare, with each value, and after '-' *)

MaxValueLen == 2

\* The characters short values are spelled with: a digit, a letter, the two separators
ValueAlphabet == { "1", "a", ",", ":" }

ShortValues == UNION { [1..n -> ValueAlphabet] : n \in 0..MaxValueLen }

Values == { ValueText[v] : v \in DOMAIN ValueText } \cup ShortValues

PlainTokens ==
    { KeyText[k] : k \in DOMAIN KeyText }
        \cup { KeyText[k] \o << "=" >> \o v : k \in DOMAIN KeyText, v \in Values }

ParseTokens == PlainTokens \cup { << "-" >> \o t : t \in PlainTokens }

\* Operation::from_str is a pure function: its answer for each token, computed once
parsed == [t \in TableTokens \cup ParseTokens |-> Operation_from_str(t)]

---------------------------------------------------------------------------
(* The connection: tokens arrive one at a time *)

Init ==
    /\ isupport = EmptyTable
    /\ received = <<>>
    /\ references = <<>>
    /\ folded = <<>>
    /\ who = <<>>

Receive(t) ==
    /\ received' = Append(received, [token |-> t, result |-> parsed[t]])
    /\ isupport' = handle(isupport, parsed[t])
    /\ UNCHANGED << references, folded, who >>

\* A negotiation of up to MaxTokens tokens
Next == Len(received) < MaxTokens /\ \E t \in TableTokens : Receive(t)

Spec == Init /\ [][Next]_vars

\* The first token of a negotiation, drawn from every key with every value
NextParse == received = <<>> /\ \E t \in ParseTokens : Receive(t)

SpecParse == Init /\ [][NextParse]_vars

---------------------------------------------------------------------------
(* A history request: two message references are fuzzed *)

\* Server times run from 0 to MaxTime seconds
MaxTime == 11

MessageReferences ==
    { Timestamp(t) : t \in 0..MaxTime } \cup { MessageId("a"), MessageId("b"), NoReference }

InitFuzz ==
    /\ isupport = EmptyTable
    /\ received = <<>>
    /\ folded = <<>>
    /\ who = <<>>
    /\ references \in { [first |-> a, second |-> b, fuzzed |-> None] :
                           a \in MessageReferences, b \in MessageReferences }

Fuzz ==
    /\ references.fuzzed = None
    /\ references' = [references EXCEPT
           !.fuzzed = Some(fuzz_message_reference_range(references.first,
                                                        references.second))]
    /\ UNCHANGED << isupport, received, folded, who >>

SpecFuzz == InitFuzz /\ [][Fuzz]_vars

---------------------------------------------------------------------------
(* A name is normalized, and what comes out is normalized again *)

\* Names have up to MaxNameLen characters and are normalized up to MaxNormalize times
MaxNameLen == 2

MaxNormalize == 2

NameAlphabet ==
    { "A", "M", "Z", "a", "z", "[", "]", "\\", "~", "{", "}", "|", "^", "É", "é", "1" }

Names == UNION { [1..n -> NameAlphabet] : n \in 0..MaxNameLen }

InitNormalize ==
    /\ isupport = EmptyTable
    /\ received = <<>>
    /\ references = <<>>
    /\ who = <<>>
    /\ folded \in { [casemap |-> c, strings |-> << s >>] : c \in CaseMap, s \in Names }

Normalize ==
    /\ Len(folded.strings) <= MaxNormalize
    /\ folded' = [folded EXCEPT
           !.strings = Append(@, normalize(folded.casemap, @[Len(@)]))]
    /\ UNCHANGED << isupport, received, references, who >>

SpecNormalize == InitNormalize /\ [][Normalize]_vars

---------------------------------------------------------------------------
(* A WHOX request: the token of a reply is parsed and rendered *)

MaxWhoLen == 4

WhoAlphabet == { "0", "9", "a", "²" }

WhoTexts == UNION { [1..n -> WhoAlphabet] : n \in 0..MaxWhoLen }

InitWho ==
    /\ isupport = EmptyTable
    /\ received = <<>>
    /\ references = <<>>
    /\ folded = <<>>
    /\ who \in { [request |-> p, token |-> t, parsed |-> None, rendered |-> None] :
                    p \in WhoXPollParameters, t \in WhoTexts }

ParseWho ==
    /\ who.parsed = None
    /\ who' = [who EXCEPT !.parsed = Some(WhoToken_from_str(who.token))]
    /\ UNCHANGED << isupport, received, references, folded >>

RenderWho ==
    /\ who.parsed # None
    /\ who.parsed[1].ok
    /\ who.rendered = None
    /\ who' = [who EXCEPT !.rendered = Some(WhoToken_to_owned(who.parsed[1].val))]
    /\ UNCHANGED << isupport, received, references, folded >>

NextWho == ParseWho \/ RenderWho

SpecWho == InitWho /\ [][NextWho]_vars

---------------------------------------------------------------------------
(* What the claims speak of *)

\* The last token handed to the parser and the parser's answer
LastToken == received[Len(received)].token

result == received[Len(received)].result

\* The table the connection holds after the first n received tokens
RECURSIVE Replay(_)
Replay(n) ==
    IF n = 0 THEN EmptyTable ELSE handle(Replay(n - 1), received[n].result)

\* The table as it was before the last token
Before == Replay(Len(received) - 1)

\* The token is "-name" and name is not the key name of a Kind
IsUnmappedRemoval(t) == t # <<>> /\ Head(t) = "-" /\ Join(Tail(t)) \notin Kind

\* The kind k, as Some(k), when the last two tokens are an Add of kind k and then "-"
\* followed by k's key name; None otherwise
AddThenRemove ==
    IF /\ Len(received) >= 2
       /\ received[Len(received) - 1].result.ok
       /\ received[Len(received) - 1].result.val.op = "Add"
       /\ LastToken # <<>>
       /\ Head(LastToken) = "-"
       /\ Parameter_kind(received[Len(received) - 1].result.val.param)
            = Some(Join(Tail(LastToken)))
    THEN Some(Join(Tail(LastToken)))
    ELSE None

\* C1: an Add of kind k followed by Remove of k's key name leaves no entry for k;
\* a Remove whose name is no Kind's key name leaves the table as it was.
C1_AddThenRemove ==
    /\ AddThenRemove # None
        => ( /\ AddThenRemove[1] \in Kind
             /\ result = Ok(Remove(Tail(LastToken)))
             /\ AddThenRemove[1] \notin DOMAIN isupport )
    /\ (received # <<>> /\ IsUnmappedRemoval(LastToken))
        => ( result.ok /\ Operation_kind(result.val) = None /\ isupport = Before )

\* An entry was added and then removed again, or "-WATCH" left a stored entry alone
C1_Witness ==
    \/ /\ AddThenRemove = Some("WHOX")
       /\ isupport = EmptyTable
    \/ /\ Len(received) = 2
       /\ received[1].token = with_value("NICKLEN", "5")
       /\ LastToken = minus("WATCH")
       /\ DOMAIN isupport = { "NICKLEN" }

\* Last write wins, told from the parsed operations alone: the table that holds, after
\* the first n received tokens, for each Kind the payload of the last Add of the variant
\* of that name that no Remove of that name followed
RECURSIVE LastWrites(_)
LastWrites(n) ==
    IF n = 0 THEN EmptyTable
    ELSE LET r == received[n].result
             earlier == LastWrites(n - 1)
         IN  IF ~r.ok THEN earlier
             ELSE IF r.val.op = "Add"
                 THEN IF r.val.param.tag \in Kind
                      THEN [k \in DOMAIN earlier \cup { r.val.param.tag } |->
                               IF k = r.val.param.tag THEN r.val.param ELSE earlier[k]]
                      ELSE earlier
             ELSE [k \in DOMAIN earlier \ { Join(r.val.name) } |-> earlier[k]]

\* C2: for each Kind the table holds the payload of the most recent Add of that Kind
\* that no later Remove of that Kind followed, and nothing else.
C2_LastWriteWins ==
    /\ DOMAIN isupport \subseteq Kind
    /\ isupport = LastWrites(Len(received))

\* The same key was sent twice with different values and the later value is stored
C2_Witness ==
    /\ Len(received) = 2
    /\ received[1].token = with_value("NICKLEN", "5")
    /\ received[2].token = with_value("NICKLEN", "10")
    /\ isupport["NICKLEN"].val = 10

\* The "corruption" branch of an accessor: an entry is stored at kind but is another variant
corruption(table, kind) == kind \in DOMAIN table /\ table[kind].tag # kind

\* C3: every stored entry's key is the kind of its value, and no accessor meets corruption.
C3_KeyIsKindOfValue ==
    /\ \A k \in DOMAIN isupport : k \in Kind /\ isupport[k].tag = k
    /\ \A k \in { "CHANMODES", "CHANTYPES", "MODES", "PREFIX", "STATUSMSG" } :
        ~corruption(isupport, k)

\* Two of the entries the accessors read are stored
C3_Witness == { "CHANMODES", "CHANTYPES" } \subseteq DOMAIN isupport

\* Tokens the parser must reject: the empty token, unknown keys, values their key's
\* grammar rejects, keys that miss their required value
BadTokens ==
    { with_value(kv[1], kv[2]) : kv \in BadValues }
        \cup { bare(k) : k \in { "", "FOO", "AWAYLEN", "NICKLEN", "MAXNICKLEN",
                                 "CHATHISTORY", "draft/CHATHISTORY" } }

\* The table after the first n received tokens, had the bad ones among them not been sent
RECURSIVE ReplayGood(_)
ReplayGood(n) ==
    IF n = 0 THEN EmptyTable
    ELSE IF received[n].token \in BadTokens THEN ReplayGood(n - 1)
    ELSE handle(ReplayGood(n - 1), received[n].result)

\* C5: a token that fails to parse yields an error and no Operation, leaves the table
\* alone, and the table is what the other tokens alone would have made it.
C5_BadTokenSkipped ==
    /\ (received # <<>> /\ LastToken \in BadTokens)
        => ( ~result.ok /\ DOMAIN result = { "ok", "err" } )
    /\ (received # <<>> /\ ~result.ok) => isupport = Before
    /\ isupport = ReplayGood(Len(received))

\* A bad token came first and the token after it was applied
C5_Witness ==
    /\ Len(received) = 2
    /\ received[1].token \in BadTokens
    /\ received[2].token = with_value("CHANTYPES", "#&")
    /\ DOMAIN isupport = { "CHANTYPES" }

\* The Parameter variants that Parameter::kind sends to None
NoKindTags ==
    { "ACCEPT", "ACCOUNTEXTBAN", "BOT", "CALLERID", "CLIENTTAGDENY", "CLIENTVER", "DEAF",
      "ESILENCE", "ETRACE", "EXCEPTS", "EXTBAN", "FNC", "HOSTLEN", "INVEX", "LINELEN",
      "MAP", "MAXBANS", "MAXCHANNELS", "MAXLIST", "MAXPARA", "MAXTARGETS", "METADATA",
      "NAMESX", "NETWORK", "OVERRIDE", "SECURELIST", "SILENCE", "UHNAMES", "USERLEN",
      "VLIST", "WATCH" }

\* Parameter::kind is None for each of them
NoKindTagsHaveNoKind == \A tag \in NoKindTags : Parameter_kind(Unit(tag)) = None

\* C6: an Add of a parameter without a Kind leaves the table as it was, and only
\* parameters with a Kind are stored.
C6_NoKindNotStored ==
    /\ (received # <<>> /\ result.ok /\ result.val.op = "Add"
            /\ result.val.param.tag \in NoKindTags)
        => isupport = Before
    /\ \A k \in DOMAIN isupport : isupport[k].tag \notin NoKindTags
    /\ NoKindTagsHaveNoKind

\* "WATCH=5" was parsed to an Add after an entry was stored, and the table kept that entry only
C6_Witness ==
    /\ Len(received) = 2
    /\ received[1].token = with_value("AWAYLEN", "5")
    /\ LastToken = with_value("WATCH", "5")
    /\ result = Ok(Add(Parameter("WATCH", 5)))
    /\ DOMAIN isupport = { "AWAYLEN" }


\* C4: a token that starts with '-' always parses, to Remove of the rest of the token.
C4_MinusNeverFails ==
    (received # <<>> /\ LastToken # <<>> /\ Head(LastToken) = "-")
        => ( /\ result.ok
             /\ result.val.op = "Remove"
             /\ result.val.name = SubSeq(LastToken, 2, Len(LastToken))
             /\ << "-" >> \o result.val.name = LastToken )

\* "-KEY=value" for an unknown key was parsed to a Remove of "KEY=value"
C4_Witness ==
    /\ received # <<>>
    /\ LastToken = << "-" >> \o with_value("FOO", "5")
    /\ result = Ok(Remove(with_value("FOO", "5")))

\* The alias spellings with the canonical spelling of each
Aliases == { << "draft/CHATHISTORY", "CHATHISTORY" >>, << "MAXNICKLEN", "NICKLEN" >> }

\* A token in each form in the alias spelling, with the same token in the canonical one
AliasForms ==
    UNION { { [alias |-> with_value(a[1], "10"), canonical |-> with_value(a[2], "10")],
              [alias |-> bare(a[1]), canonical |-> bare(a[2])],
              [alias |-> minus(a[1]), canonical |-> minus(a[2])] } : a \in Aliases }

\* Both fail, or both give an Add of the same parameter, or both give a Remove that
\* Operation::kind resolves alike
SameOutcome(r1, r2) ==
    /\ r1.ok = r2.ok
    /\ r1.ok => ( /\ r1.val.op = r2.val.op
                  /\ r1.val.op = "Add" => r1.val.param = r2.val.param
                  /\ r1.val.op = "Remove" => Operation_kind(r1.val) = Operation_kind(r2.val) )

\* C7: a token in an alias spelling (draft/CHATHISTORY, MAXNICKLEN) has the parse outcome
\* of the same token in the canonical spelling and leaves the table as that token would.
C7_AliasEquivalent ==
    received # <<>> =>
        \A f \in AliasForms :
            LastToken = f.alias =>
                /\ SameOutcome(result, parsed[f.canonical])
                /\ isupport = handle(Before, parsed[f.canonical])

\* The text after "KEY=" when the token is KEY=text, as Some(text); None otherwise
ValueOf(t, k) ==
    IF /\ Len(t) > Len(KeyText[k])
       /\ SubSeq(t, 1, Len(KeyText[k]) + 1) = KeyText[k] \o << "=" >>
    THEN Some(SubSeq(t, Len(KeyText[k]) + 2, Len(t)))
    ELSE None

\* C8 as stated: "CALLERID=" is rejected with an error.
C8_EmptyCallerIdRejected ==
    (received # <<>> /\ LastToken = with_value("CALLERID", "")) => ~result.ok

\* C8 as the code has it: "CALLERID=" is accepted with the default letter 'g', as the
\* bare "CALLERID" is; CALLERID=x is rejected exactly when x is not empty and does not
\* start with an ASCII letter.
C8_EmptyCallerIdDefault ==
    received # <<>> =>
        /\ LastToken \in { with_value("CALLERID", ""), bare("CALLERID") }
            => result = Ok(Add(Parameter("CALLERID", "g")))
        /\ ValueOf(LastToken, "CALLERID") # None
            => ( result.ok <=>
                    \/ ValueOf(LastToken, "CALLERID")[1] = <<>>
                    \/ Head(ValueOf(LastToken, "CALLERID")[1])
                           \in Range(UpperSeq) \cup Range(LowerSeq) )

\* "CALLERID=" was parsed, to an Add of the default letter
C8_Witness ==
    /\ received # <<>>
    /\ LastToken = with_value("CALLERID", "")
    /\ result.ok
    /\ result.val.param.val = "g"

\* The default letter of each key that has one
DefaultLetter == [CALLERID |-> "g", DEAF |-> "D", EXCEPTS |-> "e", INVEX |-> "I"]

\* C9: bare CALLERID, DEAF, EXCEPTS, INVEX give an Add of 'g', 'D', 'e', 'I'; with a
\* value that starts with an ASCII letter they give an Add of that letter.
C9_DefaultLetters ==
    received # <<>> =>
        \A k \in DOMAIN DefaultLetter :
            /\ LastToken = bare(k) => result = Ok(Add(Parameter(k, DefaultLetter[k])))
            /\ ( /\ ValueOf(LastToken, k) # None
                 /\ ValueOf(LastToken, k)[1] # <<>>
                 /\ Head(ValueOf(LastToken, k)[1]) \in Range(UpperSeq) \cup Range(LowerSeq) )
                => result = Ok(Add(Parameter(k, Head(ValueOf(LastToken, k)[1]))))

\* Bare "DEAF" was parsed, to an Add of 'D'
C9_Witness ==
    /\ received # <<>>
    /\ LastToken = bare("DEAF")
    /\ result = Ok(Add(Parameter("DEAF", "D")))

\* Keys that need one value
ValueRequired ==
    { "ACCEPT", "AWAYLEN", "BOT", "CASEMAPPING", "CHANNELLEN", "CHATHISTORY", "CLIENTVER",
      "ELIST", "EXTBAN", "HOSTLEN", "KEYLEN", "KICKLEN", "LINELEN", "MAXBANS",
      "MAXCHANNELS", "MAXPARA", "NAMELEN", "NETWORK", "NICKLEN", "MAXNICKLEN", "STATUSMSG",
      "TOPICLEN", "USERLEN", "VLIST", "WATCH" }

\* Keys that need a list of values
ValuesRequired == { "ACCOUNTEXTBAN", "CHANLIMIT", "CHANMODES", "CLIENTTAGDENY", "MAXLIST" }

\* Keys whose bare token is accepted: the flags, the default letters, the optional values,
\* and the lists that may be empty
BareAccepted ==
    { "ETRACE", "FNC", "KNOCK", "MAP", "NAMESX", "OVERRIDE", "SAFELIST", "SECURELIST",
      "UHNAMES", "USERIP", "UTF8ONLY", "WHOX",
      "CALLERID", "DEAF", "EXCEPTS", "INVEX",
      "CHANTYPES", "ESILENCE", "MAXTARGETS", "METADATA", "MODES", "MONITOR", "SILENCE",
      "MSGREFTYPES", "PREFIX", "TARGMAX" }

\* The last token is a bare key: it has no '=' and no leading '-'
IsBare(t) == t # <<>> /\ Head(t) # "-" /\ "=" \notin Range(t)

\* A bare token yields an Add for the accepted keys only
BareSucceedsOnlyIfAccepted ==
    (received # <<>> /\ IsBare(LastToken) /\ result.ok)
        => ( result.val.op = "Add" /\ Join(LastToken) \in BareAccepted )

\* C10 as stated: every bare key that needs a value fails with "value required".
C10_BareValueRequired ==
    /\ received # <<>> =>
        \A k \in ValueRequired \cup ValuesRequired :
            LastToken = bare(k) => result = Err("value required")
    /\ BareSucceedsOnlyIfAccepted

\* C10 as the code has it: a bare key that needs one value fails with "value required",
\* one that needs a list of values with "value(s) required"; neither yields an Add, and
\* a bare token yields an Add for the accepted keys only.
C10_BareValueOrValuesRequired ==
    /\ received # <<>> =>
        /\ \A k \in ValueRequired :
            LastToken = bare(k) => result = Err("value required")
        /\ \A k \in ValuesRequired :
            LastToken = bare(k) => result = Err("value(s) required")
    /\ BareSucceedsOnlyIfAccepted

\* Bare "CHANLIMIT" was parsed and failed
C10_Witness ==
    /\ received # <<>>
    /\ LastToken = bare("CHANLIMIT")
    /\ result = Err("value(s) required")


\* Every key spelling Operation::from_str knows
KnownKeys == Kind \cup NoKindTags \cup { "MAXNICKLEN", "draft/CHATHISTORY" }

\* The position of the first '=' of the token, 0 when it has none
FirstEquals(t) ==
    IF "=" \notin Range(t) THEN 0
    ELSE CHOOSE i \in 1..Len(t) : t[i] = "=" /\ \A j \in 1..(i - 1) : t[j] # "="

\* The key of a token: the text before its first '=', the whole token without one
KeyOf(t) == IF FirstEquals(t) = 0 THEN t ELSE SubSeq(t, 1, FirstEquals(t) - 1)

\* The text after the first '=' of the token
AfterFirstEquals(t) == SubSeq(t, FirstEquals(t) + 1, Len(t))

\* C11: a non-empty token without leading '-' whose key is not exactly a known key fails
\* with "unknown ISUPPORT parameter"; the token is split at its first '=' only, so a
\* later '=' is part of the value.
C11_ExactKeyFirstEquals ==
    (received # <<>> /\ LastToken # <<>> /\ Head(LastToken) # "-") =>
        /\ Join(KeyOf(LastToken)) \notin KnownKeys
            => result = Err("unknown ISUPPORT parameter")
        /\ (FirstEquals(LastToken) # 0 /\ Join(KeyOf(LastToken)) = "NETWORK")
            => result = Ok(Add(Parameter("NETWORK", AfterFirstEquals(LastToken))))

\* "NETWORK=a=b" was parsed and the value kept its '='
C11_Witness ==
    /\ received # <<>>
    /\ LastToken = with_value("NETWORK", "a=b")
    /\ result = Ok(Add(Parameter("NETWORK", << "a", "=", "b" >>)))


\* The smaller of two numbers
Min(a, b) == IF a < b THEN a ELSE b

\* The positions, among the first 26 comma groups, of the groups made of letters only
KeptGroups(groups) ==
    { i \in 1..Min(Len(groups), 26) :
        \A j \in 1..Len(groups[i]) : groups[i][j] \in Range(UpperSeq) \cup Range(LowerSeq) }

\* The list holds exactly the kept groups, each under the letter of its position, in order
ModesByPosition(list, groups) ==
    /\ Len(list) = Cardinality(KeptGroups(groups))
    /\ \A i \in KeptGroups(groups) :
        \E j \in 1..Len(list) : list[j] = [kind |-> UpperSeq[i], modes |-> groups[i]]
    /\ \A j, k \in 1..Len(list) :
        j < k => IndexOf(UpperSeq, list[j].kind) < IndexOf(UpperSeq, list[k].kind)

\* What CHANMODES=g1,g2,... gives: each group of letters under the letter of its position
ChanModesByPosition ==
    (received # <<>> /\ ValueOf(LastToken, "CHANMODES") # None) =>
        LET groups == split(ValueOf(LastToken, "CHANMODES")[1], ",")
        IN  /\ result.ok <=> KeptGroups(groups) # {}
            /\ ~result.ok => result = Err("no valid channel modes")
            /\ result.ok =>
                /\ result.val.op = "Add"
                /\ result.val.param.tag = "CHANMODES"
                /\ ModesByPosition(result.val.param.val, groups)
            /\ LastToken = with_value("CHANMODES", "b,k,l,imnpst") =>
                result = Ok(Add(Parameter("CHANMODES",
                    << [kind |-> "A", modes |-> << "b" >>],
                       [kind |-> "B", modes |-> << "k" >>],
                       [kind |-> "C", modes |-> << "l" >>],
                       [kind |-> "D", modes |-> << "i", "m", "n", "p", "s", "t" >>] >>)))

\* C12: the first four comma groups of CHANMODES=g1,g2,... get the letters A, B, C, D by
\* position, a group with a non-letter is left out without shifting the others, and no
\* ModeKind has a letter outside 'A'..'D', however many groups the value has.
C12_ChanModesWithinAtoD ==
    /\ ChanModesByPosition
    /\ (received # <<>> /\ ValueOf(LastToken, "CHANMODES") # None /\ result.ok) =>
        \A j \in 1..Len(result.val.param.val) :
            result.val.param.val[j].kind \in { "A", "B", "C", "D" }

\* No ModeKind of the list has an empty modes string, and no two have the same letter
NonEmptyGroups(list) ==
    /\ \A j \in 1..Len(list) : list[j].modes # <<>>
    /\ \A j, k \in 1..Len(list) : list[j].kind = list[k].kind => j = k

\* C13: a parsed CHANMODES list has no ModeKind with an empty modes string; "CHANMODES="
\* and "CHANMODES=,,," fail with "no valid channel modes"; every stored CHANMODES entry
\* has only non-empty groups, at most one per letter.
C13_NoEmptyGroup ==
    /\ (received # <<>> /\ ValueOf(LastToken, "CHANMODES") # None /\ result.ok)
        => NonEmptyGroups(result.val.param.val)
    /\ (received # <<>> /\ LastToken \in { with_value("CHANMODES", ""),
                                          with_value("CHANMODES", ",,,") })
        => result = Err("no valid channel modes")
    /\ "CHANMODES" \in DOMAIN isupport => NonEmptyGroups(isupport["CHANMODES"].val)


\* The position of the first ')' of the value, 0 when it has none
FirstParen(v) ==
    IF ")" \notin Range(v) THEN 0
    ELSE CHOOSE i \in 1..Len(v) : v[i] = ")" /\ \A j \in 1..(i - 1) : v[j] # ")"

\* The characters before the first ')' but for the first one, and those after the ')'
ModesOf(v) == SubSeq(v, 2, FirstParen(v) - 1)

PrefixesOf(v) == SubSeq(v, FirstParen(v) + 1, Len(v))

\* C14: PREFIX=value without ')' is an error; otherwise the characters before the first
\* ')', but for the first one, are paired in order with the characters after the ')',
\* as many pairs as the shorter of the two has characters.
C14_PrefixPairs ==
    (received # <<>> /\ ValueOf(LastToken, "PREFIX") # None) =>
        LET v == ValueOf(LastToken, "PREFIX")[1]
        IN  /\ FirstParen(v) = 0 => ~result.ok
            /\ FirstParen(v) # 0 =>
                /\ result.ok
                /\ result.val.op = "Add"
                /\ result.val.param.tag = "PREFIX"
                /\ Len(result.val.param.val) = Min(Len(ModesOf(v)), Len(PrefixesOf(v)))
                /\ \A i \in 1..Len(result.val.param.val) :
                    result.val.param.val[i]
                        = [mode |-> ModesOf(v)[i], prefix |-> PrefixesOf(v)[i]]
            /\ LastToken = with_value("PREFIX", "(ov)@+") =>
                result = Ok(Add(Parameter("PREFIX",
                    << [mode |-> "o", prefix |-> "@"], [mode |-> "v", prefix |-> "+"] >>)))

\* "PREFIX=(ov)@" was parsed, to the one pair the shorter side allows
C14_Witness ==
    /\ received # <<>>
    /\ LastToken = with_value("PREFIX", "(ov)@")
    /\ result = Ok(Add(Parameter("PREFIX", << [mode |-> "o", prefix |-> "@"] >>)))


\* The position of the first ':' of the item, 0 when it has none
FirstColon(item) ==
    IF ":" \notin Range(item) THEN 0
    ELSE CHOOSE i \in 1..Len(item) : item[i] = ":" /\ \A j \in 1..(i - 1) : item[j] # ":"

\* The entries of one item 'chars:limit': one per character of chars, with no limit when
\* the limit text is empty, with the limit when it is a number, none otherwise
LimitEntries(item) ==
    LET chars == SubSeq(item, 1, FirstColon(item) - 1)
        text == SubSeq(item, FirstColon(item) + 1, Len(item))
    IN  IF FirstColon(item) = 0 THEN <<>>
        ELSE IF text = <<>> THEN [j \in 1..Len(chars) |-> [prefix |-> chars[j], limit |-> None]]
        ELSE IF parse_u16(text) = None THEN <<>>
        ELSE [j \in 1..Len(chars) |-> [prefix |-> chars[j], limit |-> parse_u16(text)]]

\* The entries of the first n items, in order
RECURSIVE EntriesUpTo(_, _)
EntriesUpTo(items, n) ==
    IF n = 0 THEN <<>> ELSE EntriesUpTo(items, n - 1) \o LimitEntries(items[n])

\* C15: CHANLIMIT=value gives, in order, one entry per prefix character of each comma
\* item 'chars:limit', without limit when the limit text is empty and with Some(n) when
\* it is a number; other items give nothing; the token fails exactly when no entry results.
C15_ChanLimitEntries ==
    (received # <<>> /\ ValueOf(LastToken, "CHANLIMIT") # None) =>
        LET items == split(ValueOf(LastToken, "CHANLIMIT")[1], ",")
            entries == EntriesUpTo(items, Len(items))
        IN  /\ result.ok <=> entries # <<>>
            /\ result.ok => result = Ok(Add(Parameter("CHANLIMIT", entries)))
            /\ LastToken = with_value("CHANLIMIT", "#:10,&:") =>
                result = Ok(Add(Parameter("CHANLIMIT",
                    << [prefix |-> "#", limit |-> Some(10)],
                       [prefix |-> "&", limit |-> None] >>)))

\* "CHANLIMIT=#&:5" was parsed, to one entry for each of the two prefix characters
C15_Witness ==
    /\ received # <<>>
    /\ LastToken = with_value("CHANLIMIT", "#&:5")
    /\ result = Ok(Add(Parameter("CHANLIMIT",
           << [prefix |-> "#", limit |-> Some(5)], [prefix |-> "&", limit |-> Some(5)] >>)))


\* The commands looked up
Commands ==
    { << "P", "R", "I", "V", "M", "S", "G" >>, << "p", "r", "i", "v", "m", "s", "g" >>,
      << "J", "O", "I", "N" >>, << "A" >> }

\* The entries of the stored TARGMAX list for the command, in order; none without TARGMAX
EntriesFor(command) ==
    IF "TARGMAX" \notin DOMAIN isupport THEN <<>>
    ELSE SelectSeq(isupport["TARGMAX"].val, LAMBDA e : e.command = command)

\* What holds of find_target_limit whether the list names a command once or more often
TargetLimitCommon ==
    /\ \A command \in Commands :
        /\ find_target_limit(isupport, command) # None
            => \E i \in 1..Len(EntriesFor(command)) :
                   EntriesFor(command)[i].limit = find_target_limit(isupport, command)
        /\ EntriesFor(command) = <<>> => find_target_limit(isupport, command) = None
    /\ (received # <<>> /\ LastToken = with_value("TARGMAX", "privmsg:4"))
        => find_target_limit(isupport, << "P", "R", "I", "V", "M", "S", "G" >>) = Some(4)

\* C16 as stated: find_target_limit gives Some(n) only when TARGMAX holds an entry for the
\* command with limit Some(n); it gives None without TARGMAX, without an entry for the
\* command, and when TARGMAX holds an entry without limit for the command.
C16_UnlimitedEntryGivesNone ==
    /\ TargetLimitCommon
    /\ \A command \in Commands :
        (\E i \in 1..Len(EntriesFor(command)) : EntriesFor(command)[i].limit = None)
            => find_target_limit(isupport, command) = None

\* C16 as the code has it: the first entry of the list for the command decides; the
\* answer is its limit, None when it has none, whatever later entries for the command say.
C16_FirstEntryDecides ==
    /\ TargetLimitCommon
    /\ \A command \in Commands :
        EntriesFor(command) # <<>>
            => find_target_limit(isupport, command) = EntriesFor(command)[1].limit

\* TARGMAX names JOIN without limit and PRIVMSG with one: the lookups give None and Some(4)
C16_Witness ==
    /\ received # <<>>
    /\ LastToken = with_value("TARGMAX", "PRIVMSG:4,JOIN:")
    /\ find_target_limit(isupport, << "J", "O", "I", "N" >>) = None
    /\ find_target_limit(isupport, << "P", "R", "I", "V", "M", "S", "G" >>) = Some(4)


\* C17: get_mode_limit_or_default gives Some(3) whenever the table has no MODES entry,
\* the empty table included, and the stored value otherwise: None after "MODES" or
\* "MODES=", Some(n) after "MODES=n".
C17_ModeLimit ==
    /\ "MODES" \notin DOMAIN isupport => get_mode_limit_or_default(isupport) = Some(3)
    /\ "MODES" \in DOMAIN isupport
        => get_mode_limit_or_default(isupport) = isupport["MODES"].val
    /\ (received # <<>> /\ LastToken \in { bare("MODES"), with_value("MODES", "") })
        => get_mode_limit_or_default(isupport) = None
    /\ (received # <<>> /\ LastToken = with_value("MODES", "5"))
        => get_mode_limit_or_default(isupport) = Some(5)
    /\ (received # <<>> /\ LastToken = minus("MODES"))
        => get_mode_limit_or_default(isupport) = Some(3)

\* "MODES=5" was stored and bare "MODES" after it made the limit None
C17_Witness ==
    /\ Len(received) = 2
    /\ received[1].token = with_value("MODES", "5")
    /\ LastToken = bare("MODES")
    /\ get_mode_limit_or_default(isupport) = None


\* The accessor of each of the three kinds, and the protocol default of each
Accessor(kind, table) ==
    CASE kind = "CASEMAPPING" -> get_casemapping_or_default(table)
      [] kind = "CHANMODES" -> get_chanmodes_or_default(table)
      [] kind = "STATUSMSG" -> get_statusmsg_or_default(table)

ProtocolDefault(kind) ==
    CASE kind = "CASEMAPPING" -> "RFC7613"
      [] kind = "CHANMODES" ->
            << [kind |-> "A", modes |-> << "b", "e", "I" >>],
               [kind |-> "B", modes |-> << "k" >>],
               [kind |-> "C", modes |-> << "l" >>],
               [kind |-> "D", modes |-> << "i", "m", "s", "t", "n" >>] >>
      [] kind = "STATUSMSG" -> <<>>

\* C18: for CASEMAPPING, CHANMODES and STATUSMSG the accessor gives the stored value
\* when the table has an entry of the kind and the protocol default otherwise, so the
\* default again after an Add and a Remove of the kind.
C18_StoredOrDefault ==
    \A kind \in { "CASEMAPPING", "CHANMODES", "STATUSMSG" } :
        /\ kind \in DOMAIN isupport => Accessor(kind, isupport) = isupport[kind].val
        /\ kind \notin DOMAIN isupport => Accessor(kind, isupport) = ProtocolDefault(kind)
        /\ AddThenRemove = Some(kind) => Accessor(kind, isupport) = ProtocolDefault(kind)

\* "CHANMODES=b,k,l,i" was stored and read back, and after "-CHANMODES" the accessor
\* gave the default again
C18_Witness ==
    /\ Len(received) = 2
    /\ received[1].token = with_value("CHANMODES", "b,k,l,i")
    /\ get_chanmodes_or_default(Before) = Before["CHANMODES"].val
    /\ get_chanmodes_or_default(Before) # DEFAULT_CHANMODES
    /\ AddThenRemove = Some("CHANMODES")
    /\ get_chanmodes_or_default(isupport) = DEFAULT_CHANMODES


\* The two references given and the two returned, when both given are timestamps
BothTimestamps ==
    /\ references # <<>>
    /\ references.fuzzed # None
    /\ references.first.tag = "Timestamp"
    /\ references.second.tag = "Timestamp"

\* The pair with its components swapped
Swapped(pair) == << pair[2], pair[1] >>

\* What holds of fuzz_message_reference_range whether or not the two timestamps differ:
\* of two different timestamps the earlier is moved 5 seconds earlier and the later 5
\* seconds later, each in its place; the window is never narrowed; references of which
\* one is no timestamp come back unchanged.
FuzzWidens ==
    /\ BothTimestamps =>
        LET t1 == references.first.server_time
            t2 == references.second.server_time
            r1 == references.fuzzed[1][1]
            r2 == references.fuzzed[1][2]
        IN  /\ r1.tag = "Timestamp" /\ r2.tag = "Timestamp"
            /\ t1 < t2 => (r1.server_time = t1 - 5 /\ r2.server_time = t2 + 5)
            /\ t1 > t2 => (r1.server_time = t1 + 5 /\ r2.server_time = t2 - 5)
            /\ t1 = t2 => { r1.server_time, r2.server_time } = { t1 - 5, t1 + 5 }
            /\ (t1 = 0 /\ t2 = 10) => (r1.server_time = -5 /\ r2.server_time = 15)
    /\ (references # <<>> /\ references.fuzzed # None /\ ~BothTimestamps)
        => references.fuzzed = Some(<< references.first, references.second >>)

\* C19 as stated: the earlier timestamp is moved 5 seconds earlier and the later 5 seconds
\* later, each in its place, equal timestamps included; fuzz_range(a, b) is fuzz_range(b, a)
\* with its components swapped; without two timestamps both come back unchanged.
C19_FuzzSwapsForAll ==
    /\ FuzzWidens
    /\ BothTimestamps =>
        references.fuzzed[1]
            = Swapped(fuzz_message_reference_range(references.second, references.first))

\* C19 as the code has it: as stated for two different timestamps; of two equal timestamps
\* the first is moved 5 seconds later and the second 5 seconds earlier, so that swapping
\* the arguments gives the same pair and not the swapped one.
C19_FuzzSwapsForDifferent ==
    /\ FuzzWidens
    /\ (BothTimestamps /\ references.first # references.second) =>
        references.fuzzed[1]
            = Swapped(fuzz_message_reference_range(references.second, references.first))
    /\ (BothTimestamps /\ references.first = references.second) =>
        /\ references.fuzzed[1][1].server_time = references.first.server_time + 5
        /\ references.fuzzed[1][2].server_time = references.first.server_time - 5
        /\ references.fuzzed[1]
            # Swapped(fuzz_message_reference_range(references.second, references.first))

\* The later timestamp came first: it was moved later and the earlier one earlier
C19_Witness ==
    /\ references # <<>>
    /\ references.first = Timestamp(10)
    /\ references.second = Timestamp(0)
    /\ references.fuzzed = Some(<< Timestamp(15), Timestamp(-5) >>)


\* What RFC1459 makes of a character: a small letter of a capital, a brace of a bracket,
\* the bar of the backslash, the caret of the tilde, the character itself otherwise
Rfc1459Of(c) ==
    CASE c = "A" -> "a" [] c = "B" -> "b" [] c = "C" -> "c" [] c = "D" -> "d"
      [] c = "E" -> "e" [] c = "F" -> "f" [] c = "G" -> "g" [] c = "H" -> "h"
      [] c = "I" -> "i" [] c = "J" -> "j" [] c = "K" -> "k" [] c = "L" -> "l"
      [] c = "M" -> "m" [] c = "N" -> "n" [] c = "O" -> "o" [] c = "P" -> "p"
      [] c = "Q" -> "q" [] c = "R" -> "r" [] c = "S" -> "s" [] c = "T" -> "t"
      [] c = "U" -> "u" [] c = "V" -> "v" [] c = "W" -> "w" [] c = "X" -> "x"
      [] c = "Y" -> "y" [] c = "Z" -> "z"
      [] c = "[" -> "{"
      [] c = "]" -> "}"
      [] c = "\\" -> "|"
      [] c = "~" -> "^"
      [] OTHER -> c

\* C20: normalize(normalize(s)) = normalize(s) for the four case mappings; RFC1459 maps
\* A-Z to a-z, '[' to '{', ']' to '}', '\' to '|' and '~' to '^'; RFC1459_STRICT does the
\* same but for '~', which it leaves alone.
C20_NormalizeIdempotent ==
    folded # <<>> =>
        /\ \A i \in 2..Len(folded.strings) : folded.strings[i] = folded.strings[2]
        /\ \A i \in 1..Len(folded.strings) : Len(folded.strings[i]) = Len(folded.strings[1])
        /\ (folded.casemap = "RFC1459" /\ Len(folded.strings) >= 2) =>
            \A j \in 1..Len(folded.strings[1]) :
                folded.strings[2][j] = Rfc1459Of(folded.strings[1][j])
        /\ (folded.casemap = "RFC1459_STRICT" /\ Len(folded.strings) >= 2) =>
            \A j \in 1..Len(folded.strings[1]) :
                folded.strings[2][j]
                    = IF folded.strings[1][j] = "~" THEN "~"
                      ELSE Rfc1459Of(folded.strings[1][j])

\* "[~" was normalized twice under RFC1459_STRICT: the bracket became a brace, the tilde
\* stayed, and the second time changed nothing
C20_Witness ==
    /\ folded # <<>>
    /\ folded.casemap = "RFC1459_STRICT"
    /\ folded.strings = << << "[", "~" >>, << "{", "~" >>, << "{", "~" >> >>


---------------------------------------------------------------------------
(* C21: WHO tokens *)

\* C21: WhoToken parsing accepts exactly the texts of one to three ASCII
\* digits and rejects every other; an accepted text is what to_owned renders
\* from its token; and no other text parses to the same token.
C21_WhoTokenRoundTrip ==
    who # <<>> /\ who.parsed # None =>
        /\ who.parsed[1].ok <=>
               /\ Len(who.token) \in 1..3
               /\ \A i \in 1..Len(who.token) : who.token[i] \in Range(DigitSeq)
        /\ who.rendered # None => who.rendered[1] = who.token
        /\ who.parsed[1].ok =>
               \A t \in WhoTexts :
                   WhoToken_from_str(t) = who.parsed[1] => t = who.token

\* the token of "09" is parsed and rendered
C21_Witness ==
    /\ who # <<>>
    /\ who.token = << "0", "9" >>
    /\ who.parsed = Some(Ok([digits |-> << "0", "9", NUL >>]))
    /\ who.rendered = Some(<< "0", "9" >>)


---------------------------------------------------------------------------
(* C22: the two WHOX requests *)

\* the text the spec gives for the token of each request
PollTokenText(p) == IF p = "Default" THEN << "9" >> ELSE << "9", "9" >>

\* C22: Default has fields "tcnf" and a token that renders as "9" and is the
\* token parsed from "9"; WithAccountName has fields "tcnfa" and a token that
\* renders as "99" and is the token parsed from "99"; the token of one
\* request is never the token of the other, so a reply's token tells which
\* request it answers.
C22_PollTokensDistinct ==
    who # <<>> /\ who.parsed # None =>
        LET sent == WhoXPollParameters_token(who.request)
        IN  /\ WhoXPollParameters_fields(who.request)
                   = (IF who.request = "Default" THEN "tcnf" ELSE "tcnfa")
            /\ WhoToken_to_owned(sent) = PollTokenText(who.request)
            /\ who.parsed[1] = Ok(sent) <=> who.token = PollTokenText(who.request)
            /\ \A q \in WhoXPollParameters \ { who.request } :
                   WhoXPollParameters_token(q) # sent

\* a reply to the request with account names carries "99"
C22_Witness ==
    /\ who # <<>>
    /\ who.request = "WithAccountName"
    /\ who.token = << "9", "9" >>
    /\ who.parsed = Some(Ok(WhoXPollParameters_token("WithAccountName")))
    /\ who.rendered = Some(<< "9", "9" >>)


---------------------------------------------------------------------------
(* C23: MSGREFTYPES *)

\* C23: MSGREFTYPES=value never fails; items other than "msgid" and
\* "timestamp" are ignored and the stored list is the recognised items in the
\* reverse of their declared order ("msgid,timestamp" gives [Timestamp,
\* MessageId]); without a recognised item the stored list is empty.
C23_MsgRefTypesReversed ==
    (received # <<>> /\ ValueOf(LastToken, "MSGREFTYPES") # None) =>
        LET items == split(ValueOf(LastToken, "MSGREFTYPES")[1], ",")
            recognised == SelectSeq(items, LAMBDA d : Join(d) \in { "msgid", "timestamp" })
            stored == [i \in 1..Len(recognised) |->
                          IF Join(recognised[Len(recognised) + 1 - i]) = "msgid"
                          THEN "MessageId" ELSE "Timestamp"]
        IN  /\ result = Ok(Add(Parameter("MSGREFTYPES", stored)))
            /\ LastToken = with_value("MSGREFTYPES", "msgid,timestamp") =>
                   result.val.param.val = << "Timestamp", "MessageId" >>
            /\ recognised = <<>> => result.val.param.val = <<>>

\* "MSGREFTYPES=foo,msgid" and "MSGREFTYPES=timestamp,msgid" are the cases:
\* here the second, stored with the message id first
C23_Witness ==
    /\ received # <<>>
    /\ LastToken = with_value("MSGREFTYPES", "timestamp,msgid")
    /\ result = Ok(Add(Parameter("MSGREFTYPES", << "MessageId", "Timestamp" >>)))


---------------------------------------------------------------------------
(* C24: list values with no valid entry *)

\* C24: for the list-valued keys whose parser has a "no valid ..." error, a
\* value that yields no valid entry is an error: "CLIENTTAGDENY=" fails with
\* "no valid client tag denials" and "ACCOUNTEXTBAN=" fails with "no valid
\* account-based extended ban masks"; neither stores a list holding an
\* empty entry.
C24_EmptyListValueRejected ==
    received # <<>> =>
        /\ LastToken = with_value("CLIENTTAGDENY", "") =>
               result = Err("no valid client tag denials")
        /\ LastToken = with_value("ACCOUNTEXTBAN", "") =>
               result = Err("no valid account-based extended ban masks")


---------------------------------------------------------------------------
(* C25: the positive integers *)

\* C25: the required-positive-integer validator of AWAYLEN, NICKLEN,
\* CHATHISTORY, TOPICLEN and the other length keys accepts exactly the
\* decimal values 1..65535 and rejects 0, the empty text, text that is no
\* number and values above 65535; the optional variant (MODES, MONITOR,
\* SILENCE) differs only in mapping the empty text to None.
C25_PositiveIntegerOnly ==
    received # <<>> =>
        \A k \in { "AWAYLEN", "NICKLEN", "CHATHISTORY", "TOPICLEN",
                   "MODES", "MONITOR", "SILENCE" } :
            ValueOf(LastToken, k) # None =>
                LET v == ValueOf(LastToken, k)[1]
                    digits == IF v # <<>> /\ Head(v) = "+" THEN Tail(v) ELSE v
                    positive == /\ digits # <<>>
                                /\ \A i \in 1..Len(digits) : digits[i] \in Range(DigitSeq)
                                /\ decimal(digits, 0) \in 1..U16_MAX
                IN  IF k \in { "MODES", "MONITOR", "SILENCE" } /\ v = <<>>
                    THEN result = Ok(Add(Parameter(k, None)))
                    ELSE /\ result.ok <=> positive
                         /\ result.ok =>
                                result.val.param.val =
                                    IF k \in { "MODES", "MONITOR", "SILENCE" }
                                    THEN Some(decimal(digits, 0)) ELSE decimal(digits, 0)


---------------------------------------------------------------------------
(* C26: an empty PREFIX and an empty CHANTYPES *)

\* C26: get_prefix_or_default gives the default rank order (q '~', a '&',
\* o '@', h '%', v '+') only when the table has no PREFIX entry; a bare
\* "PREFIX" and "PREFIX=()" store an empty list, and the accessor then gives
\* that empty list, not the default.  A stored CHANTYPES without characters
\* (bare "CHANTYPES" or "CHANTYPES=") makes get_chantypes_or_default give the
\* default channel prefixes.
C26_EmptyPrefixKept ==
    /\ "PREFIX" \in DOMAIN isupport =>
           get_prefix_or_default(isupport) = isupport["PREFIX"].val
    /\ "PREFIX" \notin DOMAIN isupport =>
           get_prefix_or_default(isupport) =
               << [prefix |-> "~", mode |-> "q"], [prefix |-> "&", mode |-> "a"],
                  [prefix |-> "@", mode |-> "o"], [prefix |-> "%", mode |-> "h"],
                  [prefix |-> "+", mode |-> "v"] >>
    /\ (received # <<>> /\ LastToken \in { bare("PREFIX"), with_value("PREFIX", "()") }) =>
           /\ result = Ok(Add(Parameter("PREFIX", <<>>)))
           /\ isupport["PREFIX"].val = <<>>
           /\ get_prefix_or_default(isupport) = <<>>
    /\ (received # <<>> /\ LastToken \in { bare("CHANTYPES"), with_value("CHANTYPES", "") }) =>
           /\ result = Ok(Add(Parameter("CHANTYPES", None)))
           /\ isupport["CHANTYPES"].val = None
           /\ get_chantypes_or_default(isupport) = << "#", "&" >>

\* "PREFIX=()" was stored as an empty list, which the accessor gave back
C26_Witness ==
    /\ received # <<>>
    /\ LastToken = with_value("PREFIX", "()")
    /\ isupport = [x \in { "PREFIX" } |-> Parameter("PREFIX", <<>>)]
    /\ get_prefix_or_default(isupport) = <<>>
    /\ get_prefix_or_default(isupport) # DEFAULT_PREFIX

=============================================================================
